---- MODULE Spec2Model ----
(***************************************************************************)
(* A model of opyapi: the validator combinators (allOf / anyOf / oneOf /  *)
(* if-then-else), the leaf validators they are composed of, the schema    *)
(* compiler's treatment of reference handles, the schema store, the       *)
(* numeric, equality, array and object validators, the builder that      *)
(* turns a schema into a validator, JsonUri addition, the life of a       *)
(* JsonSchema (normalization, anchors, queries, handles, dump) and        *)
(* concurrent calls of JsonSchemaStore.get.                               *)
(*                                                                         *)
(* Python values are modelled with reference semantics: a list lives in a *)
(* heap and a value is either an immutable scalar or a reference to a     *)
(* heap object, so that in-place mutation, aliasing and deepcopy are what *)
(* they are in the program.                                               *)
(***************************************************************************)
EXTENDS Integers, Sequences, FiniteSets, TLC

VARIABLES
    cHeap0,       \* combinators: the heap when the combinator is called
    cHeap,        \* combinators: the heap now
    cValue,       \* combinators: the caller's value (a scalar or a reference)
    cValidators,  \* combinators: the validators handed to the combinator
    cOp,          \* combinators: which combinator was called
    cPc,          \* combinators: "ready" before the call, "done" after it
    cRes,         \* combinators: what the call returned or raised
    sSchemas,     \* store: the JsonSchema objects created so far
    sStore,       \* store: JsonSchemaStore.store, as <<uri source, schema>> entries
    sLast,        \* store: the last store call and what it returned or raised
    kSchema,      \* compiler: the normalized schema document being compiled
    kStack,       \* compiler: the build_validator_for calls in progress
    kStatus,      \* compiler: "created", "compiling", "returned" or the exception
    kResolved,    \* compiler: the reference handles whose `document` has been resolved
    nSchema,      \* numbers: the numeric schema
    nValue,       \* numbers: the value given to the validator
    nValidator,   \* numbers: the compiled validator, a functools.partial
    nPc,          \* numbers: "schema", "built", "called" or "direct"
    nRes,         \* numbers: what the call returned or raised
    eValue,       \* equality: the value given to the validator
    eArg,         \* equality: the literals of the enum / const, the items of the array
    eOp,          \* equality: the validator called, "none" before the call
    eRes,         \* equality: what the call returned or raised
    oObj,         \* objects: the object given to validate_object
    oArgs,        \* objects: the keyword arguments of validate_object
    oPc,          \* objects: "ready" or "called"
    oRes,         \* objects: what the call returned or raised
    bSchema,      \* builder: the schema given to build_validator_for
    bValue,       \* builder: the value given to the compiled validator
    bValidator,   \* builder: the compiled validator
    bPc,          \* builder: "schema", "built", "failed" or "called"
    bRes,         \* builder: what the call returned or raised
    uSelf,        \* uris: the JsonUri that receives `+`
    uOther,       \* uris: the string added to it
    uPc,          \* uris: "ready" or "added"
    uRes,         \* uris: the JsonUri returned, or the exception raised
    jRaw,         \* schema: the document the schema was made from
    jSelf,        \* schema: the JsonSchema object
    jStore,       \* schema: JsonSchemaStore.store
    jMemo,        \* schema: the handles' cached `document` and the lru_cache of query
    jLast,        \* schema: the last operation and what it returned or raised
    tUri,         \* callers: the URI each caller requests
    tPc,          \* callers: the statement each caller is about to execute
    tLocal,       \* callers: the local variable `schema` of each caller
    tResult,      \* callers: what JsonSchemaStore.get returned to each caller
    tStore,       \* callers: JsonSchemaStore.store
    tLoaded,      \* callers: FileLoader.store
    tCreated      \* callers: the number of JsonSchema objects created

cVars == <<cHeap0, cHeap, cValue, cValidators, cOp, cPc, cRes>>

sVars == <<sSchemas, sStore, sLast>>

kVars == <<kSchema, kStack, kStatus, kResolved>>

nVars == <<nSchema, nValue, nValidator, nPc, nRes>>

eVars == <<eValue, eArg, eOp, eRes>>

oVars == <<oObj, oArgs, oPc, oRes>>

bVars == <<bSchema, bValue, bValidator, bPc, bRes>>

uVars == <<uSelf, uOther, uPc, uRes>>

jVars == <<jRaw, jSelf, jStore, jMemo, jLast>>

tVars == <<tUri, tPc, tLocal, tResult, tStore, tLoaded, tCreated>>

\* The variables of the parts modelled after the validators.
restVars == <<uVars, jVars, tVars>>

vars == <<cVars, sVars, kVars, nVars, eVars, oVars, bVars, restVars>>

-----------------------------------------------------------------------------
(* Bounds of the model. *)

\* The longest list among the validated values.
MaxLen == 2

\* The longest validator list handed to allOf / anyOf / oneOf.
MaxValidators == 3

\* The most JsonSchema objects alive at once.
MaxSchemas == 3

\* The most properties of a validated object.
MaxProperties == 2

\* The most patterns given as pattern_properties.
MaxPatterns == 2

\* The number of subschemas under "$defs" of a compiled schema.
MaxDefs == 2

\* The deepest nesting of build_validator_for calls the interpreter allows
\* before it raises RecursionError (sys.getrecursionlimit() in the program).
RecursionLimit == 6

\* The most directories in the path of a JsonUri.
MaxDirectories == 2

\* The most segments in a relative path added to a JsonUri.
MaxSegments == 2

\* The most parts of a pointer into a document.
MaxDepth == 3

\* The threads that call JsonSchemaStore.get at once.
MaxCallers == 2

-----------------------------------------------------------------------------
(* JSON values and the heap. *)

Null == [k |-> "null", n |-> 0]

BoolV(b) == [k |-> "bool", n |-> IF b THEN 1 ELSE 0]

IntV(i) == [k |-> "int", n |-> i]

\* A float, held in tenths: FloatV(10) is 1.0 and FloatV(11) is 1.1.
FloatV(t) == [k |-> "float", n |-> t]

StrV(i) == [k |-> "str", n |-> i]

\* The magnitude of a number in tenths; a bool is the int 0 or 1.
Tenths(value) == IF value.k = "float" THEN value.n ELSE value.n * 10

\* The values Python compares as numbers: bool is a subclass of int.
IsNumeric(value) == value.k \in {"bool", "int", "float"}

\* A reference to the heap object number id.
Ref(id) == [k |-> "ref", n |-> id]

ListObject(items) == [k |-> "list", items |-> items]

\* A dict: its keys in insertion order and the value of each. The
\* validators build a new dict and never write into the one they are
\* given, so a dict is held by value.
DictV(keys, vals) == [k |-> "dict", n |-> 0, keys |-> keys, vals |-> vals]

\* The property names of the objects validated, and the length of each.
PropertyNames == {"a", "ab", "b", "c"}

len_key(key) == IF key = "ab" THEN 2 ELSE 1

\* re.search(name_pattern, key), for the patterns "^a" and "b$".
re_search(name_pattern, key) ==
    CASE name_pattern = "^a" -> key \in {"a", "ab"}
      [] name_pattern = "b$" -> key \in {"ab", "b"}
      [] OTHER -> FALSE

isinstance_list(value, heap) == value.k = "ref" /\ heap[value.n].k = "list"

RECURSIVE deepcopy(_, _)
RECURSIVE deepcopy_items(_, _, _, _)

\* copy.deepcopy: an immutable scalar is returned as it is, a list is
\* rebuilt, element by element, in a fresh heap object.
deepcopy(x, heap) ==
    IF x.k # "ref"
    THEN [out |-> x, heap |-> heap]
    ELSE LET copied == deepcopy_items(heap[x.n].items, 1, <<>>, heap)
         IN  [out  |-> Ref(Len(copied.heap) + 1),
              heap |-> Append(copied.heap, ListObject(copied.items))]

deepcopy_items(items, i, acc, heap) ==
    IF i > Len(items)
    THEN [items |-> acc, heap |-> heap]
    ELSE LET c == deepcopy(items[i], heap)
         IN  deepcopy_items(items, i + 1, Append(acc, c.out), c.heap)

RECURSIVE Deep(_, _)

\* The structure of a value: what == compares and what a caller sees.
Deep(x, heap) ==
    IF x.k # "ref"
    THEN x
    ELSE [k     |-> "list",
          n     |-> 0,
          items |-> [i \in 1..Len(heap[x.n].items) |-> Deep(heap[x.n].items[i], heap)]]

-----------------------------------------------------------------------------
(* Each part of the program has its own specification; the variables of   *)
(* the other parts then stay in their idle state.                         *)

NoResult ==
    [st |-> "none", out |-> Null, heap |-> <<>>, code |-> "", calls |-> <<>>,
     cls |-> "", property_name |-> "", validation_error |-> ""]

cIdle ==
    /\ cHeap0 = <<>>
    /\ cHeap = <<>>
    /\ cValue = Null
    /\ cValidators = <<>>
    /\ cOp = "none"
    /\ cPc = "idle"
    /\ cRes = NoResult

Uri(protocol, path) == [protocol |-> protocol, path |-> path]

\* No URI: a document without "$id", a constructor call without id_.
NoUri == Uri("", "")

NoCall == [op |-> "none", uri |-> NoUri, ret |-> 0, error |-> ""]

sIdle ==
    /\ sSchemas = <<>>
    /\ sStore = {}
    /\ sLast = NoCall

kIdle ==
    /\ kSchema = <<>>
    /\ kStack = <<>>
    /\ kStatus = "idle"
    /\ kResolved = {}

nIdle ==
    /\ nSchema = <<>>
    /\ nValue = Null
    /\ nValidator = <<>>
    /\ nPc = "idle"
    /\ nRes = NoResult

eIdle ==
    /\ eValue = Null
    /\ eArg = <<>>
    /\ eOp = "idle"
    /\ eRes = NoResult

oIdle ==
    /\ oObj = Null
    /\ oArgs = <<>>
    /\ oPc = "idle"
    /\ oRes = NoResult

bIdle ==
    /\ bSchema = <<>>
    /\ bValue = Null
    /\ bValidator = <<>>
    /\ bPc = "idle"
    /\ bRes = NoResult

uIdle ==
    /\ uSelf = <<>>
    /\ uOther = <<>>
    /\ uPc = "idle"
    /\ uRes = <<>>

jIdle ==
    /\ jRaw = <<>>
    /\ jSelf = <<>>
    /\ jStore = <<>>
    /\ jMemo = <<>>
    /\ jLast = <<>>

tIdle ==
    /\ tUri = <<>>
    /\ tPc = <<>>
    /\ tLocal = <<>>
    /\ tResult = <<>>
    /\ tStore = <<>>
    /\ tLoaded = <<>>
    /\ tCreated = 0

restIdle == uIdle /\ jIdle /\ tIdle

-----------------------------------------------------------------------------
(* What a validator call produces: the value it returns or the error it   *)
(* raises, the heap it leaves, and (for a combinator) the calls it made.  *)

\* The exceptions the interpreter raises that are no ValueError: a call
\* with a keyword the function does not have, an index out of range.
\* (TypeValidationError is a ValidationError, hence a ValueError.)
NotValueErrors == {"TypeError", "IndexError"}

Ok(out, heap) ==
    [st |-> "ok", out |-> out, heap |-> heap, code |-> "", calls |-> <<>>,
     cls |-> "", property_name |-> "", validation_error |-> ""]

\* An exception: its class (ValidationError for every subclass but
\* PropertyValueValidationError), its code, and, for a property error, the
\* property_name and validation_error of its context.
Raise(code, heap) ==
    [st |-> "err", out |-> Null, heap |-> heap, code |-> code, calls |-> <<>>,
     cls |-> IF code \in NotValueErrors THEN code ELSE "ValidationError",
     property_name |-> "", validation_error |-> ""]

\* `except ValueError` catches the outcome.
IsValueError(r) == r.st = "err" /\ r.code \notin NotValueErrors

\* One entry of a combinator's call log.
CallEntry(i, arg, heap, r) ==
    [i |-> i, arg |-> arg, deep |-> Deep(arg, heap),
     st |-> r.st, out |-> r.out, code |-> r.code]

\* `lambda value: value`
Identity == [f |-> "identity"]

\* An absent then_validator / else_validator / additional_items.
None == [f |-> "None"]

-----------------------------------------------------------------------------
(* Leaf validators. *)

validate_null(value, strict, heap) ==
    IF value.k = "null" THEN Ok(Null, heap)
    ELSE IF strict THEN Raise("type_error", heap)
    ELSE Ok(value, heap)

validate_boolean(value, strict, heap) ==
    IF value.k = "bool" THEN Ok(value, heap)
    ELSE IF strict THEN Raise("type_error", heap)
    ELSE Ok(value, heap)

_return_default(value, default, heap) ==
    IF value.k = "null" THEN Ok(default, heap) ELSE Ok(value, heap)

\* _fail: raises the ValidationError bound to it, given here by its code.
_fail(value, error, heap) == Raise(error, heap)

RECURSIVE _wrap_booleans(_)

\* _wrap_booleans: a boolean becomes a _Bool, which equals only a _Bool of
\* the same value; the items of a list are wrapped in turn.
_wrap_booleans(value) ==
    IF value.k = "bool"
    THEN [k |-> "_Bool", n |-> value.n]
    ELSE IF value.k = "list"
    THEN [value EXCEPT !.items = [i \in DOMAIN value.items |-> _wrap_booleans(value.items[i])]]
    ELSE value

RECURSIVE PyEqual(_, _)

\* Python's ==: two numbers (bool, int, float) are equal when they are the
\* same number, two lists when their items are pairwise equal.
PyEqual(a, b) ==
    IF IsNumeric(a) /\ IsNumeric(b)
    THEN Tenths(a) = Tenths(b)
    ELSE IF a.k = "list" /\ b.k = "list"
    THEN /\ Len(a.items) = Len(b.items)
         /\ \A i \in DOMAIN a.items : PyEqual(a.items[i], b.items[i])
    ELSE a = b

\* The uniqueness loop of validate_tuple: some item equals an earlier one.
HasDuplicate(value, heap) ==
    LET items == heap[value.n].items
    IN  \E i, j \in 1..Len(items) :
            /\ i < j
            /\ PyEqual(_wrap_booleans(Deep(items[i], heap)),
                       _wrap_booleans(Deep(items[j], heap)))

RECURSIVE Run(_, _, _)
RECURSIVE tuple_loop(_, _, _, _, _)
RECURSIVE all_of_loop(_, _, _, _, _)
RECURSIVE array_loop(_, _, _, _, _)
RECURSIVE object_loop(_, _, _, _, _)
RECURSIVE any_of_loop(_, _, _, _, _)
RECURSIVE one_of_loop(_, _, _, _, _, _, _)

\* The loop of validate_tuple: value[i] = validator(value[i]), in place.
tuple_loop(value, item_validator, additional_items, i, heap) ==
    IF i > Len(heap[value.n].items)
    THEN Ok(value, heap)
    ELSE LET validator == IF i <= Len(item_validator)
                          THEN item_validator[i]
                          ELSE additional_items
             r == Run(validator, heap[value.n].items[i], heap)
         IN  IF r.st = "err"
             THEN Raise(r.code, r.heap)
             ELSE tuple_loop(value, item_validator, additional_items, i + 1,
                             [r.heap EXCEPT ![value.n].items[i] = r.out])

validate_tuple(value, item_validator, additional_items, unique_items, strict, heap) ==
    IF ~isinstance_list(value, heap)
    THEN IF ~strict THEN Ok(value, heap) ELSE Raise("type_error", heap)
    ELSE IF unique_items /\ HasDuplicate(value, heap)
    THEN Raise("unique_items_error", heap)
    ELSE IF Len(heap[value.n].items) > Len(item_validator) /\ additional_items = None
    THEN Raise("additional_items_error", heap)
    ELSE tuple_loop(value, item_validator, additional_items, 1, heap)

\* validate_equal: `value == expected`.
validate_equal(value, expected, heap) ==
    IF PyEqual(Deep(value, heap), Deep(expected, heap))
    THEN Ok(value, heap)
    ELSE Raise("equal_error", heap)

\* validate_enum, the test of one item: `item is value` for a bool value,
\* `item == value` for any other.
enum_item_matches(item, value, heap) ==
    IF value.k = "bool"
    THEN item = value
    ELSE PyEqual(Deep(item, heap), Deep(value, heap))

validate_enum(value, values, heap) ==
    IF \E i \in DOMAIN values : enum_item_matches(values[i], value, heap)
    THEN Ok(value, heap)
    ELSE Raise("enum_error", heap)

\* validate_array, `result.append(item_validator(item))`: r is what the
\* item's validator returned or raised.
array_append(items, item_validator, i, acc, r) ==
    IF r.st = "err"
    THEN r
    ELSE array_loop(items, item_validator, i + 1, Append(acc, r.out), r.heap)

\* validate_array, the loop over the items.
array_loop(items, item_validator, i, acc, heap) ==
    IF i > Len(items)
    THEN Ok(Ref(Len(heap) + 1), Append(heap, ListObject(acc)))
    ELSE array_append(items, item_validator, i, acc, Run(item_validator, items[i], heap))

validate_minimum_items(value, expected_minimum, heap) ==
    IF Len(heap[value.n].items) >= expected_minimum
    THEN Ok(value, heap)
    ELSE Raise("minimum_items_error", heap)

validate_maximum_items(value, expected_maximum, heap) ==
    IF Len(heap[value.n].items) <= expected_maximum
    THEN Ok(value, heap)
    ELSE Raise("maximum_items_error", heap)

\* validate_array after the items: uniqueness of the given items, then the
\* size of the result.
array_checks(value, result, minimum_items, maximum_items, unique_items) ==
    IF result.st = "err"
    THEN result
    ELSE IF unique_items /\ HasDuplicate(value, result.heap)
    THEN Raise("unique_items_error", result.heap)
    ELSE IF minimum_items > -1
            /\ validate_minimum_items(result.out, minimum_items, result.heap).st = "err"
    THEN Raise("minimum_items_error", result.heap)
    ELSE IF maximum_items > -1
            /\ validate_maximum_items(result.out, maximum_items, result.heap).st = "err"
    THEN Raise("maximum_items_error", result.heap)
    ELSE result

validate_array(value, item_validator, minimum_items, maximum_items, unique_items, strict, heap) ==
    IF ~isinstance_list(value, heap)
    THEN IF ~strict THEN Ok(value, heap) ELSE Raise("type_error", heap)
    ELSE array_checks(value,
                      IF item_validator # None
                      THEN array_loop(heap[value.n].items, item_validator, 1, <<>>, heap)
                      ELSE Ok(value, heap),
                      minimum_items, maximum_items, unique_items)

\* str(error): the message template of the error's class filled with its
\* context; a leaf error's message is told apart by its code.
str_error(r) ==
    IF r.cls = "PropertyValueValidationError"
    THEN "Property " \o r.property_name \o " failed to pass validation: " \o r.validation_error
    ELSE "<" \o r.code \o ">"

\* raise PropertyValueValidationError(property_name=, validation_error=, sub_code=)
PropertyValueValidationError(property_name, validation_error, sub_code, heap) ==
    [Raise("property_value_error:" \o sub_code, heap)
        EXCEPT !.cls = "PropertyValueValidationError",
               !.property_name = property_name,
               !.validation_error = validation_error]

\* A _validate_property that reports a nested property error like any other
\* validation error.
property_error_flat(key, r) ==
    IF r.st = "ok" THEN r
    ELSE IF r.cls \in {"PropertyValueValidationError", "ValidationError"}
    THEN PropertyValueValidationError(key, str_error(r), r.code, r.heap)
    ELSE IF r.cls = "ValueError"
    THEN PropertyValueValidationError(key, str_error(r), "value_error", r.heap)
    ELSE r

\* _validate_property, the except clauses: r is what validator(value)
\* returned or raised.
property_error(key, r) ==
    IF r.st = "ok" THEN r
    ELSE IF r.cls = "PropertyValueValidationError"
    THEN PropertyValueValidationError(key \o "." \o r.property_name,
                                      r.validation_error, r.code, r.heap)
    ELSE IF r.cls = "ValidationError"
    THEN PropertyValueValidationError(key, str_error(r), r.code, r.heap)
    ELSE IF r.cls = "ValueError"
    THEN PropertyValueValidationError(key, str_error(r), "value_error", r.heap)
    ELSE r

_validate_property(key, value, validator, heap) ==
    property_error(key, Run(validator, value, heap))

\* additional_properties=True / False, as opposed to a validator.
AdditionalTrue == [f |-> "True"]

AdditionalFalse == [f |-> "False"]

callable(additional_properties) == additional_properties.f \notin {"True", "False"}

\* The keyword arguments of validate_object left at their defaults.
ObjectDefaults ==
    [properties |-> <<>>, min_properties |-> -1, max_properties |-> -1,
     required_properties |-> {}, pattern_properties |-> <<>>,
     additional_properties |-> AdditionalTrue, property_names |-> None,
     dependencies |-> <<>>]

\* A validate_object whose `properties` take precedence over the patterns.
first_matching_pattern_none(pattern_properties, key) == 0

\* validate_object, the loop over pattern_properties: the index of the
\* first pattern found in the key, 0 when there is none.
first_matching_pattern(pattern_properties, key) ==
    LET matching == {i \in DOMAIN pattern_properties :
                        re_search(pattern_properties[i].pattern, key)}
    IN  IF matching = {} THEN 0 ELSE CHOOSE i \in matching : \A j \in matching : i <= j

\* validate_object, the choice of property_validator for a key: the rule
\* applied ("pattern", "properties", "additional", "forbidden" or "none")
\* and the validator it names.
property_rule(key, args) ==
    LET p == first_matching_pattern(args.pattern_properties, key)
        named == {i \in DOMAIN args.properties : args.properties[i].key = key}
    IN  IF p # 0
        THEN [rule |-> "pattern", validator |-> args.pattern_properties[p].validator]
        ELSE IF named # {}
        THEN [rule |-> "properties",
              validator |-> args.properties[CHOOSE i \in named : TRUE].validator]
        ELSE IF callable(args.additional_properties)
        THEN [rule |-> "additional", validator |-> args.additional_properties]
        ELSE IF args.additional_properties = AdditionalFalse
        THEN [rule |-> "forbidden", validator |-> None]
        ELSE [rule |-> "none", validator |-> None]

\* validate_object, the dependencies of a key that the object lacks.
missing_dependencies(obj, key, dependencies) ==
    UNION {dependencies[i].needs \ {obj.keys[j] : j \in DOMAIN obj.keys} :
              i \in {d \in DOMAIN dependencies : dependencies[d].key = key}}

\* validate_object, the end of one turn of the loop: r is the validated
\* value of the property.
object_evaluated(obj, args, i, new_vals, r) ==
    IF r.st = "err"
    THEN r
    ELSE IF missing_dependencies(obj, obj.keys[i], args.dependencies) # {}
    THEN Raise("dependency_error", r.heap)
    ELSE object_loop(obj, args, i + 1, Append(new_vals, r.out), r.heap)

\* validate_object, one turn of the loop once the key is checked: named
\* is what property_names(key) returned or raised.
object_property(obj, args, i, new_vals, named, chosen) ==
    IF named.st = "err" /\ named.cls \in {"ValidationError", "PropertyValueValidationError"}
    THEN [Raise("property_name_error:" \o named.code, named.heap)
             EXCEPT !.property_name = obj.keys[i], !.validation_error = str_error(named)]
    ELSE IF named.st = "err"
    THEN named
    ELSE IF chosen.rule = "forbidden"
    THEN [Raise("additional_properties_error", named.heap) EXCEPT !.property_name = obj.keys[i]]
    ELSE object_evaluated(obj, args, i, new_vals,
                          IF chosen.validator = None
                          THEN Ok(obj.vals[i], named.heap)
                          ELSE _validate_property(obj.keys[i], obj.vals[i],
                                                  chosen.validator, named.heap))

\* validate_object, the loop over obj.items().
object_loop(obj, args, i, new_vals, heap) ==
    IF i > Len(obj.keys)
    THEN Ok(DictV(obj.keys, new_vals), heap)
    ELSE object_property(obj, args, i, new_vals,
                         IF args.property_names = None
                         THEN Ok(Null, heap)
                         ELSE Run(args.property_names, StrV(len_key(obj.keys[i])), heap),
                         property_rule(obj.keys[i], args))

\* validate_object after the loop: the size of the object and its required
\* properties. args holds the keyword arguments. The property named
\* by required_property_error is any of the missing ones (set.pop()) and
\* is left out of the error.
object_size(obj, args, r) ==
    IF r.st = "err"
    THEN r
    ELSE IF args.min_properties >= 0 /\ Len(obj.keys) < args.min_properties
    THEN Raise("minimum_properties_error", r.heap)
    ELSE IF 0 <= args.max_properties /\ args.max_properties < Len(obj.keys)
    THEN Raise("maximum_properties_error", r.heap)
    ELSE IF args.required_properties \ {obj.keys[i] : i \in DOMAIN obj.keys} # {}
    THEN Raise("required_property_error", r.heap)
    ELSE r

validate_object(obj, args, heap) ==
    IF obj.k # "dict"
    THEN Raise("type_error", heap)
    ELSE object_size(obj, args, object_loop(obj, args, 1, <<>>, heap))

\* Calling partial(validate_object, **keywords)(obj): validate_object has
\* no `strict` parameter, so a partial that binds it raises TypeError.
call_validate_object(keywords, obj, heap) ==
    IF "strict" \in DOMAIN keywords
    THEN Raise("TypeError", heap)
    ELSE validate_object(obj, [name \in DOMAIN ObjectDefaults |->
                                  IF name \in DOMAIN keywords
                                  THEN keywords[name]
                                  ELSE ObjectDefaults[name]], heap)

-----------------------------------------------------------------------------
(* The numeric validators. A number's magnitude is compared in tenths, so *)
(* that the integer 1 and the float 1.0 compare equal.                    *)

\* isinstance(value, int), for a value that is not a bool.
isinstance_int(value) == value.k = "int"

\* isinstance(value, Number), for a value that is not a bool.
isinstance_Number(value) == value.k \in {"int", "float"}

validate_minimum(value, expected_minimum) ==
    IF Tenths(value) >= Tenths(expected_minimum)
    THEN Ok(value, <<>>)
    ELSE Raise("MinimumValidationError", <<>>)

validate_maximum(value, expected_maximum) ==
    IF Tenths(value) <= Tenths(expected_maximum)
    THEN Ok(value, <<>>)
    ELSE Raise("MaximumValidationError", <<>>)

validate_exclusive_minimum(value, expected_minimum) ==
    IF Tenths(value) > Tenths(expected_minimum)
    THEN Ok(value, <<>>)
    ELSE Raise("ExclusiveMinimumValidationError", <<>>)

validate_exclusive_maximum(value, expected_maximum) ==
    IF Tenths(value) < Tenths(expected_maximum)
    THEN Ok(value, <<>>)
    ELSE Raise("ExclusiveMaximumValidationError", <<>>)

validate_multiple_of(value, multiple_of) ==
    IF Tenths(value) % Tenths(multiple_of) = 0
    THEN Ok(value, <<>>)
    ELSE Raise("MultipleOfValidationError", <<>>)

\* validate_number; a keyword left out is Null (None).
validate_number(value, minimum, maximum, exclusive_minimum, exclusive_maximum, multiple_of, integer) ==
    IF value.k = "bool"
    THEN Raise("TypeValidationError", <<>>)
    ELSE IF integer /\ ~isinstance_int(value)
    THEN Raise("TypeValidationError", <<>>)
    ELSE IF ~integer /\ ~isinstance_Number(value)
    THEN Raise("TypeValidationError", <<>>)
    ELSE IF minimum # Null /\ validate_minimum(value, minimum).st = "err"
    THEN validate_minimum(value, minimum)
    ELSE IF maximum # Null /\ validate_maximum(value, maximum).st = "err"
    THEN validate_maximum(value, maximum)
    ELSE IF exclusive_maximum # Null
            /\ validate_exclusive_maximum(value, exclusive_maximum).st = "err"
    THEN validate_exclusive_maximum(value, exclusive_maximum)
    ELSE IF exclusive_minimum # Null
            /\ validate_exclusive_minimum(value, exclusive_minimum).st = "err"
    THEN validate_exclusive_minimum(value, exclusive_minimum)
    ELSE IF multiple_of # Null /\ validate_multiple_of(value, multiple_of).st = "err"
    THEN validate_multiple_of(value, multiple_of)
    ELSE Ok(value, <<>>)

\* The keyword parameters in validate_number's signature.
validate_number_parameters ==
    {"minimum", "maximum", "exclusive_minimum", "exclusive_maximum",
     "multiple_of", "integer"}

\* The schema keyword _build_numerical_validator reads for each keyword
\* argument it binds.
SchemaKeyword(parameter) ==
    CASE parameter = "minimum" -> "minimum"
      [] parameter = "maximum" -> "maximum"
      [] parameter = "exclusive_minimum" -> "exclusiveMinimum"
      [] parameter = "exclusive_maximum" -> "exclusiveMaximum"
      [] parameter = "multiple_of" -> "multipleOf"

\* _build_numerical_validator: the keyword arguments of the
\* partial(validate_number, ...) it returns. A schema keyword that is
\* absent is Null in the definition.
_build_numerical_validator(definition, strict) ==
    LET present == {parameter \in validate_number_parameters \ {"integer"} :
                        definition[SchemaKeyword(parameter)] # Null}
    IN  [parameter \in {"integer", "strict"} \cup present |->
            CASE parameter = "integer" -> BoolV(definition.type = "integer")
              [] parameter = "strict" -> BoolV(strict)
              [] OTHER -> definition[SchemaKeyword(parameter)]]

\* The value bound to a keyword, Null (the parameter's default) when the
\* keyword is not given.
Keyword(keywords, parameter) ==
    IF parameter \in DOMAIN keywords THEN keywords[parameter] ELSE Null

\* Calling partial(validate_number, **keywords)(value): a keyword that is
\* not in the function's signature is a TypeError.
call_validate_number(keywords, value) ==
    IF ~(DOMAIN keywords \subseteq validate_number_parameters)
    THEN Raise("TypeError", <<>>)
    ELSE validate_number(value,
                         Keyword(keywords, "minimum"),
                         Keyword(keywords, "maximum"),
                         Keyword(keywords, "exclusive_minimum"),
                         Keyword(keywords, "exclusive_maximum"),
                         Keyword(keywords, "multiple_of"),
                         Keyword(keywords, "integer") = BoolV(TRUE))

\* The code of each error class of errors.py that validate_number raises;
\* the interpreter's own TypeError has none and keeps its name.
ErrorCode(class) ==
    CASE class = "TypeValidationError" -> "type_error"
      [] class = "MinimumValidationError" -> "minimum_error"
      [] class = "ExclusiveMinimumValidationError" -> "minimum_error"
      [] class = "MaximumValidationError" -> "maximum_error"
      [] class = "ExclusiveMaximumValidationError" -> "maximum_exclusive_error"
      [] class = "MultipleOfValidationError" -> "multiple_of_error"
      [] OTHER -> class

\* What a numeric validator raised, with its code, in the caller's heap.
number_result(r, heap) ==
    IF r.st = "ok" THEN Ok(r.out, heap) ELSE Raise(ErrorCode(r.code), heap)

-----------------------------------------------------------------------------
(* The string validators. A string is given by its length: StrV(i) is the *)
(* letter a repeated i times.                                             *)

\* re.search(pattern, value), for the patterns "^a" and "b$".
re_search_string(pattern, value) ==
    CASE pattern = "^a" -> value.n >= 1
      [] OTHER -> FALSE

\* validate_string without format_name (the format registry is not part
\* of the sources); MinimumLengthError and MaximumLengthError are named by
\* their class, errors.py does not define them.
validate_string(value, minimum_length, maximum_length, pattern, heap) ==
    IF value.k # "str"
    THEN Raise("type_error", heap)
    ELSE IF minimum_length > -1 /\ ~(value.n >= minimum_length)
    THEN Raise("MinimumLengthError", heap)
    ELSE IF maximum_length > -1 /\ ~(value.n <= maximum_length)
    THEN Raise("MaximumLengthError", heap)
    ELSE IF pattern # "" /\ ~re_search_string(pattern, value)
    THEN Raise("format_error", heap)
    ELSE Ok(value, heap)

-----------------------------------------------------------------------------
(* Combinators. *)

\* A validate_all_of that hands every validator the caller's value.
all_of_same_value(value, r) == value

\* validate_all_of, `value = validate(value)`: the next validator's input.
all_of_next_value(value, r) == r.out

all_of_loop(value, validators, i, heap, calls) ==
    IF i > Len(validators)
    THEN [Ok(value, heap) EXCEPT !.calls = calls]
    ELSE LET r   == Run(validators[i], value, heap)
             log == Append(calls, CallEntry(i, value, heap, r))
         IN  IF r.st = "err"
             THEN [Raise(r.code, r.heap) EXCEPT !.calls = log]
             ELSE all_of_loop(all_of_next_value(value, r), validators, i + 1, r.heap, log)

validate_all_of(value, validators, heap) ==
    all_of_loop(value, validators, 1, heap, <<>>)

\* A validate_any_of / validate_one_of that passes the caller's own object.
combining_arg_alias(value, heap) == [out |-> value, heap |-> heap]

\* validate_any_of / validate_one_of, `deepcopy(value)`: what the validator
\* is called with.
combining_arg(value, heap) == deepcopy(value, heap)

\* A validate_any_of whose try statement catches nothing.
any_of_catches_nothing(r) == FALSE

\* validate_any_of, `except ValueError: continue`: the outcomes that make
\* the loop go on to the next validator.
any_of_catches(r) == IsValueError(r)

any_of_loop(value, validators, i, heap, calls) ==
    IF i > Len(validators)
    THEN [Raise("any_error", heap) EXCEPT !.calls = calls]
    ELSE LET c   == combining_arg(value, heap)
             r   == Run(validators[i], c.out, c.heap)
             log == Append(calls, CallEntry(i, c.out, c.heap, r))
         IN  IF any_of_catches(r)
             THEN any_of_loop(value, validators, i + 1, r.heap, log)
             ELSE [r EXCEPT !.calls = log]

validate_any_of(value, validators, heap) ==
    any_of_loop(value, validators, 1, heap, <<>>)

\* A validate_one_of that tolerates two matches.
one_of_too_many_off_by_one(valid_count) == valid_count > 2

\* validate_one_of, `if valid_count > 1`.
one_of_too_many(valid_count) == valid_count > 1

one_of_loop(value, validators, i, heap, calls, valid_count, result) ==
    IF i > Len(validators)
    THEN IF valid_count = 0
         THEN [Raise("one_of_error", heap) EXCEPT !.calls = calls]
         ELSE [Ok(result, heap) EXCEPT !.calls = calls]
    ELSE LET c   == combining_arg(value, heap)
             r   == Run(validators[i], c.out, c.heap)
             log == Append(calls, CallEntry(i, c.out, c.heap, r))
         IN  IF IsValueError(r)
             THEN one_of_loop(value, validators, i + 1, r.heap, log, valid_count, result)
             ELSE IF r.st = "err"
             THEN [r EXCEPT !.calls = log]
             ELSE IF one_of_too_many(valid_count + 1)
             THEN [Raise("one_of_error", r.heap) EXCEPT !.calls = log]
             ELSE one_of_loop(value, validators, i + 1, r.heap, log, valid_count + 1, r.out)

validate_one_of(value, validators, heap) ==
    one_of_loop(value, validators, 1, heap, <<>>, 0, Null)

\* validate_not, the try statement: r is what validator(value) returned or
\* raised.
not_result(value, r) ==
    IF IsValueError(r) THEN Ok(value, r.heap)
    ELSE IF r.st = "err" THEN r
    ELSE Raise("not_error", r.heap)

validate_not(value, validator, heap) == not_result(value, Run(validator, value, heap))

\* validate_if_then_else, `if_validator(value)`: what the condition is
\* called with.
if_arg(value, heap) == [out |-> value, heap |-> heap]

\* validate_if_then_else, the `except ValueError:` branch.
if_then_else_rejected(value, else_validator, heap, calls) ==
    IF else_validator = None
    THEN [Ok(value, heap) EXCEPT !.calls = calls]
    ELSE LET r == Run(else_validator, value, heap)
         IN  [r EXCEPT !.calls = Append(calls, CallEntry(3, value, heap, r))]

\* A validate_if_then_else that calls then_validator inside the try block:
\* its rejection is caught and handled as a rejection of the condition.
if_then_else_accepted_in_try(value, then_validator, else_validator, heap, calls) ==
    IF then_validator = None
    THEN [Ok(value, heap) EXCEPT !.calls = calls]
    ELSE LET r   == Run(then_validator, value, heap)
             log == Append(calls, CallEntry(2, value, heap, r))
         IN  IF r.st = "err"
             THEN if_then_else_rejected(value, else_validator, r.heap, log)
             ELSE [r EXCEPT !.calls = log]

\* validate_if_then_else, the `else:` branch of the try statement.
if_then_else_accepted(value, then_validator, else_validator, heap, calls) ==
    IF then_validator = None
    THEN [Ok(value, heap) EXCEPT !.calls = calls]
    ELSE LET r == Run(then_validator, value, heap)
         IN  [r EXCEPT !.calls = Append(calls, CallEntry(2, value, heap, r))]

validate_if_then_else(value, if_validator, then_validator, else_validator, heap) ==
    LET c   == if_arg(value, heap)
        r   == Run(if_validator, c.out, c.heap)
        log == <<CallEntry(1, c.out, c.heap, r)>>
    IN  IF IsValueError(r)
        THEN if_then_else_rejected(value, else_validator, r.heap, log)
        ELSE IF r.st = "err"
        THEN [r EXCEPT !.calls = log]
        ELSE if_then_else_accepted(value, then_validator, else_validator, r.heap, log)

\* Calling a validator: the function it names, with the keyword arguments
\* bound to it.
Run(v, value, heap) ==
    CASE v.f = "identity"         -> Ok(value, heap)
      [] v.f = "_fail"            -> _fail(value, v.error, heap)
      [] v.f = "validate_null"    -> validate_null(value, v.strict, heap)
      [] v.f = "validate_boolean" -> validate_boolean(value, v.strict, heap)
      [] v.f = "_return_default"  -> _return_default(value, v.default, heap)
      [] v.f = "validate_tuple"   ->
            validate_tuple(value, v.item_validator, v.additional_items,
                           v.unique_items, v.strict, heap)
      [] v.f = "validate_equal"   -> validate_equal(value, v.expected, heap)
      [] v.f = "validate_enum"    -> validate_enum(value, v.values, heap)
      [] v.f = "validate_array"   ->
            validate_array(value, v.item_validator, v.minimum_items, v.maximum_items,
                           v.unique_items, v.strict, heap)
      [] v.f = "validate_object"  -> call_validate_object(v.keywords, value, heap)
      [] v.f = "validate_number"  ->
            number_result(call_validate_number(v.keywords, value), heap)
      [] v.f = "validate_string"  ->
            validate_string(value, v.minimum_length, v.maximum_length, v.pattern, heap)
      [] v.f = "validate_string if isinstance(value, str)" ->
            IF value.k = "str"
            THEN validate_string(value, v.minimum_length, v.maximum_length, v.pattern, heap)
            ELSE Ok(value, heap)
      [] v.f = "validate_not"     -> validate_not(value, v.validator, heap)
      [] v.f = "validate_all_of"  -> validate_all_of(value, v.validators, heap)
      [] v.f = "validate_any_of"  -> validate_any_of(value, v.validators, heap)
      [] v.f = "validate_one_of"  -> validate_one_of(value, v.validators, heap)
      [] v.f = "validate_if_then_else" ->
            validate_if_then_else(value, v.if_validator, v.then_validator,
                                  v.else_validator, heap)

-----------------------------------------------------------------------------
(* The schema store. A URI is its protocol and its path; every URI here   *)
(* is a base URI (no fragment), so a URI is its own `source`.             *)

FileA == Uri("file", "/schemas/a.json")

FileB == Uri("file", "/schemas/b.json")

FileMissing == Uri("file", "/schemas/missing.json")

HttpX == Uri("http", "example.com/x.json")

\* JsonSchemaStore.loaders: the protocols with a loader.
LoaderProtocols == {"file"}

\* The files FileLoader can open, each with the "$id" of its document:
\* a.json declares "$id": "file:///schemas/b.json", b.json declares none.
FileDocumentId(uri) == IF uri = FileA THEN FileB ELSE NoUri

FilesOnDisk == {FileA, FileB}

\* The URIs a caller asks the store for.
RequestedUris == {FileA, FileB, FileMissing, HttpX}

\* The "$id" values of the documents a caller wraps in a JsonSchema.
CallerDocumentIds == {NoUri, FileB, HttpX}

\* The id_ arguments a caller gives the JsonSchema constructor.
CallerIdArguments == {NoUri, HttpX}

\* JsonSchema.__init__ without id_: "self://schema:local@" + str(id(document)).
\* The n-th object created stands for the document's address.
LocalUri(n) == Uri("self", "schema:local@" \o ToString(n))

\* JsonSchemaStore.has
StoreHas(store, uri) == \E entry \in store : entry[1] = uri

\* cls.store[uri.source]
StoreAt(store, uri) == (CHOOSE entry \in store : entry[1] = uri)[2]

\* JsonSchemaStore.add: cls.store[uri.source] = schema
StoreAdd(store, uri, schema) ==
    {entry \in store : entry[1] # uri} \cup {<<uri, schema>>}

\* A _load that registers the schema whatever the store holds.
RegistersAlways(store, uri) == TRUE

\* JsonSchema._load, `if not JsonSchemaStore.has(self._id)`.
RegistersOnLoad(store, uri) == ~StoreHas(store, uri)

sInit ==
    /\ sSchemas = <<>>
    /\ sStore = {}
    /\ sLast = NoCall

\* JsonSchema(document, id_)
NewJsonSchema(document_id, id_) ==
    /\ Len(sSchemas) < MaxSchemas
    /\ sSchemas' = Append(sSchemas,
                          [id          |-> IF id_ = NoUri
                                           THEN LocalUri(Len(sSchemas) + 1)
                                           ELSE id_,
                           ready       |-> FALSE,
                           document_id |-> document_id])
    /\ sLast' = [op |-> "JsonSchema", uri |-> id_, ret |-> Len(sSchemas) + 1, error |-> ""]
    /\ UNCHANGED sStore

\* JsonSchema._load, reached through .id or .document of a schema that is
\* not ready yet.
JsonSchema_load(schema) ==
    /\ ~sSchemas[schema].ready
    /\ LET new_id == IF sSchemas[schema].document_id # NoUri
                     THEN sSchemas[schema].document_id
                     ELSE sSchemas[schema].id
       IN  /\ sSchemas' = [sSchemas EXCEPT ![schema] =
                              [id |-> new_id, ready |-> TRUE, document_id |-> NoUri]]
           /\ sStore' = IF RegistersOnLoad(sStore, new_id)
                        THEN StoreAdd(sStore, new_id, schema)
                        ELSE sStore
           /\ sLast' = [op |-> "_load", uri |-> new_id, ret |-> schema, error |-> ""]

\* The body of JsonSchemaStore.load once the store is known not to hold uri.
LoadMissing(op, uri) ==
    IF uri.protocol \notin LoaderProtocols
    THEN /\ sLast' = [op |-> op, uri |-> uri, ret |-> 0, error |-> "ValueError"]
         /\ UNCHANGED <<sSchemas, sStore>>
    ELSE IF uri \notin FilesOnDisk
    THEN /\ sLast' = [op |-> op, uri |-> uri, ret |-> 0, error |-> "FileNotFoundError"]
         /\ UNCHANGED <<sSchemas, sStore>>
    ELSE /\ sSchemas' = Append(sSchemas,
                               [id          |-> uri,
                                ready       |-> FALSE,
                                document_id |-> FileDocumentId(uri)])
         /\ sStore' = StoreAdd(sStore, uri, Len(sSchemas) + 1)
         /\ sLast' = [op |-> op, uri |-> uri, ret |-> Len(sSchemas) + 1, error |-> ""]

\* JsonSchemaStore.get / JsonSchemaStore.load: each returns the stored
\* schema when there is one and loads the document otherwise.
StoreCall(op, uri) ==
    IF StoreHas(sStore, uri)
    THEN /\ sLast' = [op |-> op, uri |-> uri, ret |-> StoreAt(sStore, uri), error |-> ""]
         /\ UNCHANGED <<sSchemas, sStore>>
    ELSE /\ Len(sSchemas) < MaxSchemas
         /\ LoadMissing(op, uri)

JsonSchemaStore_get(uri) == StoreCall("get", uri)

JsonSchemaStore_load(uri) == StoreCall("load", uri)

StoreInit == sInit /\ cIdle /\ kIdle /\ nIdle /\ eIdle /\ oIdle /\ bIdle /\ restIdle

StoreNext ==
    \/ \E document_id \in CallerDocumentIds, id_ \in CallerIdArguments :
          NewJsonSchema(document_id, id_) /\ UNCHANGED <<cVars, kVars, nVars, eVars, oVars, bVars, restVars>>
    \/ \E schema \in 1..Len(sSchemas) :
          JsonSchema_load(schema) /\ UNCHANGED <<cVars, kVars, nVars, eVars, oVars, bVars, restVars>>
    \/ \E uri \in RequestedUris :
          JsonSchemaStore_get(uri) /\ UNCHANGED <<cVars, kVars, nVars, eVars, oVars, bVars, restVars>>
    \/ \E uri \in RequestedUris :
          JsonSchemaStore_load(uri) /\ UNCHANGED <<cVars, kVars, nVars, eVars, oVars, bVars, restVars>>

SpecStore == StoreInit /\ [][StoreNext]_vars

-----------------------------------------------------------------------------
(* The combinators' state machine: a caller holds a value and a list of   *)
(* validators and calls one combinator on them.                           *)

\* Validators as the compiler builds them.
\* {"type": "null"}
VNull == [f |-> "validate_null", strict |-> TRUE]

\* {"type": "boolean"}
VBoolean == [f |-> "validate_boolean", strict |-> TRUE]

\* {"default": 1}
VDefault == [f |-> "_return_default", default |-> IntV(1)]

\* {"items": [{"default": 1}]}
VTupleDefault ==
    [f |-> "validate_tuple", item_validator |-> <<VDefault>>,
     additional_items |-> Identity, unique_items |-> FALSE, strict |-> FALSE]

\* {"type": "array", "items": [{"type": "null"}]}
VTupleNull ==
    [f |-> "validate_tuple", item_validator |-> <<VNull>>,
     additional_items |-> Identity, unique_items |-> FALSE, strict |-> TRUE]

LeafValidators == {VNull, VBoolean, VDefault, VTupleDefault, VTupleNull}

SeqsUpTo(S, n) == UNION {[1..m -> S] : m \in 0..n}

ItemScalars == {Null, IntV(1)}

\* The values a caller passes, each with the heap that holds it: scalars,
\* and lists (heap object 1) of up to MaxLen scalars.
CallerInputs ==
    {[value |-> v, heap |-> <<>>] : v \in {Null, BoolV(TRUE), IntV(1)}}
    \cup {[value |-> Ref(1), heap |-> <<ListObject(items)>>] :
              items \in SeqsUpTo(ItemScalars, MaxLen)}

cInit ==
    /\ \E input \in CallerInputs :
          /\ cValue = input.value
          /\ cHeap0 = input.heap
          /\ cHeap = input.heap
    /\ cValidators \in SeqsUpTo(LeafValidators \cup {None}, MaxValidators)
    /\ cOp = "none"
    /\ cPc = "ready"
    /\ cRes = NoResult

NoneFree(validators) == \A i \in 1..Len(validators) : validators[i] # None

Returned(op, r) ==
    /\ cRes' = r
    /\ cHeap' = r.heap
    /\ cOp' = op
    /\ cPc' = "done"
    /\ UNCHANGED <<cHeap0, cValue, cValidators>>
    /\ UNCHANGED <<sVars, kVars, nVars, eVars, oVars, bVars, restVars>>

Call_validate_all_of ==
    /\ cPc = "ready"
    /\ NoneFree(cValidators)
    /\ Returned("all_of", validate_all_of(cValue, cValidators, cHeap))

Call_validate_any_of ==
    /\ cPc = "ready"
    /\ NoneFree(cValidators)
    /\ Returned("any_of", validate_any_of(cValue, cValidators, cHeap))

Call_validate_one_of ==
    /\ cPc = "ready"
    /\ NoneFree(cValidators)
    /\ Returned("one_of", validate_one_of(cValue, cValidators, cHeap))

\* The caller passes <<if_validator, then_validator, else_validator>>.
Call_validate_if_then_else ==
    /\ cPc = "ready"
    /\ Len(cValidators) = 3
    /\ cValidators[1] # None
    /\ Returned("if_then_else",
                validate_if_then_else(cValue, cValidators[1], cValidators[2],
                                      cValidators[3], cHeap))

CombineInit == cInit /\ sIdle /\ kIdle /\ nIdle /\ eIdle /\ oIdle /\ bIdle /\ restIdle

CombineNext ==
    \/ Call_validate_all_of
    \/ Call_validate_any_of
    \/ Call_validate_one_of
    \/ Call_validate_if_then_else

SpecCombine == CombineInit /\ [][CombineNext]_vars

-----------------------------------------------------------------------------
(* The compiler and the reference handles. The compiled document is a     *)
(* normalized schema: subschema 0 is the root mapping, subschemas         *)
(* 1..MaxDefs are the mappings under "$defs". A subschema has a "type",   *)
(* and may have {"properties": {"child": {"$ref": "#/$defs/<k>"}}} and    *)
(* {"items": {"$ref": "#/$defs/<k>"}}; normalization has replaced each    *)
(* such mapping by a JsonReference, identified here by the subschema and  *)
(* the keyword that hold it.                                              *)

\* A subschema; properties / items name the "$defs" entry referred to, 0
\* when the keyword is absent.
Subschemas ==
    [type : {"object", "array"}, properties : 0..MaxDefs, items : 0..MaxDefs]

SchemaDocuments == [0..MaxDefs -> Subschemas]

Handle(owner, key) == [owner |-> owner, key |-> key]

\* JsonReference.document: owner.query(uri.fragment), the "$defs" entry the
\* handle points to.
JsonReference_document(schema, handle) ==
    IF handle.key = "properties"
    THEN schema[handle.owner].properties
    ELSE schema[handle.owner].items

\* A build_validator_for call: on the root mapping (kind "dict") or on a
\* reference handle (kind "handle"); node is the subschema whose keywords
\* the call reads, known for a handle once its document is resolved.
Frame(kind, node, handle, pc) == [kind |-> kind, node |-> node, handle |-> handle, pc |-> pc]

NoHandle == Handle(0, "")

Top == kStack[Len(kStack)]

SetTop(frame) == [kStack EXCEPT ![Len(kStack)] = frame]

kInit ==
    /\ kSchema \in SchemaDocuments
    /\ kStack = <<>>
    /\ kStatus = "created"
    /\ kResolved = {}

\* build_validator_for(any_schema) with a JsonSchema: any_schema.document
\* is the normalized root mapping.
build_validator_for_JsonSchema ==
    /\ kStatus = "created"
    /\ kStack' = <<Frame("dict", 0, NoHandle, "enter")>>
    /\ kStatus' = "compiling"
    /\ UNCHANGED <<kSchema, kResolved>>
    /\ UNCHANGED <<cVars, sVars, nVars, eVars, oVars, bVars, restVars>>

\* build_validator_for, `"type" in schema`: on a JsonReference this is
\* JsonReference.__contains__, which reads self.document.
build_validator_for_type_in_schema ==
    /\ kStatus = "compiling"
    /\ Top.pc = "enter"
    /\ IF Top.kind = "handle"
       THEN /\ kResolved' = kResolved \cup {Top.handle}
            /\ kStack' = SetTop(Frame("handle",
                                      JsonReference_document(kSchema, Top.handle),
                                      Top.handle, "typed"))
       ELSE /\ kResolved' = kResolved
            /\ kStack' = SetTop([Top EXCEPT !.pc = "typed"])
    /\ UNCHANGED <<kSchema, kStatus>>
    /\ UNCHANGED <<cVars, sVars, nVars, eVars, oVars, bVars, restVars>>

\* _build_validator_for_type: the subschemas the type's builder compiles in
\* turn. _build_object_validator compiles every value of "properties";
\* _build_array_validator compiles "items" only when it is a dict, which a
\* JsonReference is not.
CompiledChildren(subschema) ==
    IF subschema.type = "object" /\ subschema.properties # 0
    THEN {"properties"}
    ELSE {}

\* _build_validator_for_type on a subschema with nothing to compile inside.
build_validator_for_type_leaf ==
    /\ kStatus = "compiling"
    /\ Top.pc = "typed"
    /\ CompiledChildren(kSchema[Top.node]) = {}
    /\ kStack' = SetTop([Top EXCEPT !.pc = "built"])
    /\ UNCHANGED <<kSchema, kStatus, kResolved>>
    /\ UNCHANGED <<cVars, sVars, nVars, eVars, oVars, bVars, restVars>>

\* _build_object_validator: build_validator_for(property_schema), a nested
\* call, unless the interpreter's stack is full.
build_validator_for_property ==
    /\ kStatus = "compiling"
    /\ Top.pc = "typed"
    /\ CompiledChildren(kSchema[Top.node]) # {}
    /\ Len(kStack) < RecursionLimit
    /\ kStack' = Append(SetTop([Top EXCEPT !.pc = "waiting"]),
                        Frame("handle", 0, Handle(Top.node, "properties"), "enter"))
    /\ UNCHANGED <<kSchema, kStatus, kResolved>>
    /\ UNCHANGED <<cVars, sVars, nVars, eVars, oVars, bVars, restVars>>

\* The nested call that exceeds the interpreter's recursion limit.
RaiseRecursionError ==
    /\ kStatus = "compiling"
    /\ Top.pc = "typed"
    /\ CompiledChildren(kSchema[Top.node]) # {}
    /\ Len(kStack) >= RecursionLimit
    /\ kStack' = <<>>
    /\ kStatus' = "RecursionError"
    /\ UNCHANGED <<kSchema, kResolved>>
    /\ UNCHANGED <<cVars, sVars, nVars, eVars, oVars, bVars, restVars>>

\* build_validator_for returns the validator it has built.
build_validator_for_return ==
    /\ kStatus = "compiling"
    /\ Top.pc = "built"
    /\ IF Len(kStack) = 1
       THEN /\ kStack' = <<>>
            /\ kStatus' = "returned"
       ELSE /\ kStack' = [SubSeq(kStack, 1, Len(kStack) - 1)
                             EXCEPT ![Len(kStack) - 1].pc = "built"]
            /\ kStatus' = kStatus
    /\ UNCHANGED <<kSchema, kResolved>>
    /\ UNCHANGED <<cVars, sVars, nVars, eVars, oVars, bVars, restVars>>

CompileInit == kInit /\ cIdle /\ sIdle /\ nIdle /\ eIdle /\ oIdle /\ bIdle /\ restIdle

CompileNext ==
    \/ build_validator_for_JsonSchema
    \/ build_validator_for_type_in_schema
    \/ build_validator_for_type_leaf
    \/ build_validator_for_property
    \/ RaiseRecursionError
    \/ build_validator_for_return

SpecCompile == CompileInit /\ [][CompileNext]_vars

-----------------------------------------------------------------------------
(* The numeric validators, compiled and called. *)

NumericSchemas ==
    [type : {"integer", "number"},
     minimum : {Null, IntV(1)},
     maximum : {Null, IntV(1)},
     exclusiveMinimum : {Null, IntV(1)},
     exclusiveMaximum : {Null, IntV(1)},
     multipleOf : {Null, IntV(1)}]

NumberInputs ==
    {IntV(0), IntV(1), IntV(2), FloatV(10), FloatV(15), FloatV(50),
     BoolV(TRUE), BoolV(FALSE), Null, StrV(1)}

nInit ==
    /\ nSchema \in NumericSchemas
    /\ nValue \in NumberInputs
    /\ nValidator = <<>>
    /\ nPc = "schema"
    /\ nRes = NoResult

\* validate = build_validator_for(schema), for a schema with a numeric
\* "type": _build_validator_for_type(schema["type"], schema), strict by
\* default.
Number_build_validator_for ==
    /\ nPc = "schema"
    /\ nValidator' = _build_numerical_validator(nSchema, TRUE)
    /\ nPc' = "built"
    /\ UNCHANGED <<nSchema, nValue, nRes>>
    /\ UNCHANGED <<cVars, sVars, kVars, eVars, oVars, bVars, restVars>>

\* validate(value), on the compiled validator.
Number_validate ==
    /\ nPc = "built"
    /\ nRes' = call_validate_number(nValidator, nValue)
    /\ nPc' = "called"
    /\ UNCHANGED <<nSchema, nValue, nValidator>>
    /\ UNCHANGED <<cVars, sVars, kVars, eVars, oVars, bVars, restVars>>

\* validate_number(value, ...) called directly with the schema's bounds.
Number_validate_number ==
    /\ nPc = "schema"
    /\ nRes' = validate_number(nValue, nSchema.minimum, nSchema.maximum,
                               nSchema.exclusiveMinimum, nSchema.exclusiveMaximum,
                               nSchema.multipleOf, nSchema.type = "integer")
    /\ nPc' = "direct"
    /\ UNCHANGED <<nSchema, nValue, nValidator>>
    /\ UNCHANGED <<cVars, sVars, kVars, eVars, oVars, bVars, restVars>>

NumberInit == nInit /\ cIdle /\ sIdle /\ kIdle /\ eIdle /\ oIdle /\ bIdle /\ restIdle

NumberNext ==
    \/ Number_build_validator_for
    \/ Number_validate
    \/ Number_validate_number

SpecNumber == NumberInit /\ [][NumberNext]_vars

-----------------------------------------------------------------------------
(* validate_equal, validate_enum and the uniqueness test of               *)
(* validate_array, called directly.                                       *)

\* The literals compared: 0 and 1 as int, float and bool, a string, null.
EqualityScalars ==
    {IntV(0), IntV(1), FloatV(0), FloatV(10), BoolV(FALSE), BoolV(TRUE), StrV(1), Null}

eInit ==
    /\ eValue \in EqualityScalars
    /\ eArg \in SeqsUpTo(EqualityScalars, MaxLen) \ {<<>>}
    /\ eOp = "ready"
    /\ eRes = NoResult

\* validate_equal(value, expected), with the one literal of eArg.
Call_validate_equal ==
    /\ eOp = "ready"
    /\ Len(eArg) = 1
    /\ eOp' = "validate_equal"
    /\ eRes' = validate_equal(eValue, eArg[1], <<>>)
    /\ UNCHANGED <<eValue, eArg>>
    /\ UNCHANGED <<cVars, sVars, kVars, nVars, oVars, bVars, restVars>>

\* validate_enum(value, values)
Call_validate_enum ==
    /\ eOp = "ready"
    /\ eOp' = "validate_enum"
    /\ eRes' = validate_enum(eValue, eArg, <<>>)
    /\ UNCHANGED <<eValue, eArg>>
    /\ UNCHANGED <<cVars, sVars, kVars, nVars, oVars, bVars, restVars>>

\* validate_array(items, unique_items=True), on a list holding eArg.
Call_validate_array ==
    /\ eOp = "ready"
    /\ eOp' = "validate_array"
    /\ eRes' = validate_array(Ref(1), None, -1, -1, TRUE, TRUE, <<ListObject(eArg)>>)
    /\ UNCHANGED <<eValue, eArg>>
    /\ UNCHANGED <<cVars, sVars, kVars, nVars, oVars, bVars, restVars>>

EqualityInit == eInit /\ cIdle /\ sIdle /\ kIdle /\ nIdle /\ oIdle /\ bIdle /\ restIdle

EqualityNext ==
    \/ Call_validate_equal
    \/ Call_validate_enum
    \/ Call_validate_array

SpecEquality == EqualityInit /\ [][EqualityNext]_vars

-----------------------------------------------------------------------------
(* validate_object, called directly with validators for its properties,   *)
(* its patterns and its additional properties.                            *)

\* partial(_return_default, default=i): tells which rule handled a null.
VDefaultOf(i) == [f |-> "_return_default", default |-> IntV(i)]

\* validate_object(properties={"b": validate_null}), and the same one and
\* two objects further out.
VObjectB ==
    [f |-> "validate_object",
     keywords |-> [properties |-> <<[key |-> "b", validator |-> VNull]>>]]

VObjectCB ==
    [f |-> "validate_object",
     keywords |-> [properties |-> <<[key |-> "c", validator |-> VObjectB]>>]]

\* The object {"c": {"b": 1}}.
ObjectCB == DictV(<<"c">>, <<DictV(<<"b">>, <<IntV(1)>>)>>)

ObjectValues == {Null, IntV(1), ObjectCB}

\* The sequences of at most n different elements of S.
DistinctSeqsUpTo(S, n) ==
    {q \in SeqsUpTo(S, n) : \A i, j \in DOMAIN q : i # j => q[i] # q[j]}

ObjectInputs ==
    UNION {{DictV(keys, vals) : vals \in [DOMAIN keys -> ObjectValues]} :
              keys \in DistinctSeqsUpTo(PropertyNames, MaxProperties)}

PropertyEntries ==
    [key : {"ab", "c"}, validator : {VDefaultOf(2), VObjectCB}]

PatternEntries ==
    [pattern : {"^a", "b$"}, validator : {VDefaultOf(1), VBoolean}]

AdditionalPropertiesInputs == {AdditionalTrue, AdditionalFalse, VDefaultOf(3), VNull}

oInit ==
    /\ oObj \in ObjectInputs
    /\ \E properties \in SeqsUpTo(PropertyEntries, 1),
          pattern_properties \in SeqsUpTo(PatternEntries, MaxPatterns),
          additional_properties \in AdditionalPropertiesInputs :
            oArgs = [ObjectDefaults EXCEPT !.properties = properties,
                                           !.pattern_properties = pattern_properties,
                                           !.additional_properties = additional_properties]
    /\ oPc = "ready"
    /\ oRes = NoResult

\* validate_object(obj, properties=, pattern_properties=, additional_properties=)
Call_validate_object ==
    /\ oPc = "ready"
    /\ oPc' = "called"
    /\ oRes' = validate_object(oObj, oArgs, <<>>)
    /\ UNCHANGED <<oObj, oArgs>>
    /\ UNCHANGED <<cVars, sVars, kVars, nVars, eVars, bVars, restVars>>

ObjectInit == oInit /\ cIdle /\ sIdle /\ kIdle /\ nIdle /\ eIdle /\ bIdle /\ restIdle

ObjectNext == Call_validate_object

SpecObject == ObjectInit /\ [][ObjectNext]_vars

-----------------------------------------------------------------------------
(* The validator builder. A schema is true, false or a mapping; a mapping  *)
(* is a record of every keyword together with the set `keys` of the        *)
(* keywords it really has, so that `"type" in schema` is                   *)
(* "type" \in schema.keys. The value of an absent keyword is never read.   *)
(* A `type` that is a list is held in `types`. The schemas carry no        *)
(* format, contains, propertyNames or dependencies keyword: the functions  *)
(* they call are not part of the sources.                                  *)

NoSchema == [kind |-> "none"]

SchemaTrue == [kind |-> "true"]

SchemaFalse == [kind |-> "false"]

SchemaList(items) == [kind |-> "list", items |-> items]

EmptySchema ==
    [kind |-> "dict", keys |-> {}, title |-> "", type |-> "", types |-> <<>>,
     minimum |-> Null, maximum |-> Null, exclusiveMinimum |-> Null,
     exclusiveMaximum |-> Null, multipleOf |-> Null,
     minLength |-> -1, maxLength |-> -1, pattern |-> "",
     items |-> NoSchema, additionalItems |-> NoSchema, minItems |-> -1,
     maxItems |-> -1, uniqueItems |-> FALSE,
     properties |-> <<>>, patternProperties |-> <<>>,
     additionalProperties |-> NoSchema, required |-> {},
     minProperties |-> -1, maxProperties |-> -1,
     anyOf |-> <<>>, oneOf |-> <<>>, allOf |-> <<>>, not |-> NoSchema,
     enum |-> <<>>, const |-> Null, default |-> Null,
     if |-> NoSchema, then |-> NoSchema, else |-> NoSchema]

\* The mapping with one more keyword.
With(schema, key, value) == [schema EXCEPT ![key] = value, !.keys = @ \cup {key}]

\* The mapping with "type" bound to a list of type names.
WithTypes(schema, types) == [schema EXCEPT !.types = types, !.keys = @ \cup {"type"}]

OBJECT_VALIDATOR_PROPERTIES ==
    {"properties", "required", "patternProperties", "additionalProperties",
     "propertyNames", "minProperties", "maxProperties", "dependentRequired",
     "dependencies"}

ARRAY_VALIDATOR_PROPERTIES ==
    {"items", "additionalItems", "minItems", "maxItems", "uniqueItems"}

NUMERIC_VALIDATOR_PROPERTIES ==
    {"multipleOf", "minimum", "exclusiveMinimum", "maximum", "exclusiveMaximum"}

STRING_VALIDATOR_PROPERTIES == {"minLength", "maxLength", "pattern", "format"}

\* The value of a `type` keyword: a name or a list of names.
TypeName(name) == [k |-> "str", s |-> name]

TypeList(items) == [k |-> "list", items |-> items]

\* definition["type"].
definition_type(definition) ==
    IF definition.types # <<>>
    THEN TypeList(definition.types)
    ELSE TypeName(definition.type)

_detect_schema_type(definition) ==
    IF "type" \in definition.keys THEN definition_type(definition)
    ELSE IF definition.keys \cap OBJECT_VALIDATOR_PROPERTIES # {} THEN TypeName("object")
    ELSE IF definition.keys \cap ARRAY_VALIDATOR_PROPERTIES # {} THEN TypeName("array")
    ELSE IF definition.keys \cap NUMERIC_VALIDATOR_PROPERTIES # {} THEN TypeName("number")
    ELSE IF definition.keys \cap STRING_VALIDATOR_PROPERTIES # {} THEN TypeName("string")
    ELSE TypeName("")

\* An exception raised while a validator is built, in place of the
\* validator.
RaiseBuild(code) == [f |-> "raise", code |-> code]

Raised(validators) == {i \in DOMAIN validators : validators[i].f = "raise"}

\* What a builder returns after building `validators` in this order: the
\* first exception one of them raised, else the validator made of them.
Built(validators, validator) ==
    IF Raised(validators) = {}
    THEN validator
    ELSE validators[CHOOSE i \in Raised(validators) :
                        \A j \in Raised(validators) : i <= j]

\* partial(_fail, error=ValidationError(..., code=error)).
Fail(error) == [f |-> "_fail", error |-> error]

_build_boolean_validator(strict) == [f |-> "validate_boolean", strict |-> strict]

_build_null_validator(strict) == [f |-> "validate_null", strict |-> strict]

_build_enum_validator(definition) == [f |-> "validate_enum", values |-> definition.enum]

_build_equal_validator(definition) == [f |-> "validate_equal", expected |-> definition.const]

\* partial(validate_number, **keywords).
numerical_partial(keywords) == [f |-> "validate_number", keywords |-> keywords]

\* _build_string_validator: the partial of validate_string, wrapped in the
\* isinstance lambda when not strict.
_build_string_validator(definition, strict) ==
    [f |-> IF strict
           THEN "validate_string"
           ELSE "validate_string if isinstance(value, str)",
     minimum_length |-> IF "minLength" \in definition.keys
                        THEN definition.minLength ELSE -1,
     maximum_length |-> IF "maxLength" \in definition.keys
                        THEN definition.maxLength ELSE -1,
     pattern |-> IF "pattern" \in definition.keys THEN definition.pattern ELSE ""]

RECURSIVE build_validator_for(_)
RECURSIVE _build_all_of_validator(_)
RECURSIVE _build_validator_for_type(_, _, _)
RECURSIVE _build_array_validator(_, _)
RECURSIVE _build_tuple_validator(_, _)
RECURSIVE _build_object_validator(_, _)
RECURSIVE _build_conditional_validator(_)

\* [build_validator_for(item) for item in items].
build_each(items) == [i \in DOMAIN items |-> build_validator_for(items[i])]

any_of_built(validators) ==
    Built(validators, [f |-> "validate_any_of", validators |-> validators])

one_of_built(validators) ==
    Built(validators, [f |-> "validate_one_of", validators |-> validators])

all_of_built(validators) ==
    Built(validators, [f |-> "validate_all_of", validators |-> validators])

not_built(validator) ==
    Built(<<validator>>, [f |-> "validate_not", validator |-> validator])

_build_all_of_validator(items) == all_of_built(build_each(items))

\* _build_array_validator after `items`: minItems, maxItems, uniqueItems.
array_built(definition, strict, item_validator) ==
    Built(<<item_validator>>,
          [f |-> "validate_array", item_validator |-> item_validator,
           minimum_items |-> IF "minItems" \in definition.keys
                             THEN definition.minItems ELSE -1,
           maximum_items |-> IF "maxItems" \in definition.keys
                             THEN definition.maxItems ELSE -1,
           unique_items |-> "uniqueItems" \in definition.keys /\ definition.uniqueItems,
           strict |-> strict])

\* partial(validate_array, strict=strict, maximum_items=maximum_items).
array_partial(strict, maximum_items) ==
    [f |-> "validate_array", item_validator |-> None, minimum_items |-> -1,
     maximum_items |-> maximum_items, unique_items |-> FALSE, strict |-> strict]

_build_array_validator(definition, strict) ==
    IF "items" \notin definition.keys
    THEN array_built(definition, strict, None)
    ELSE CASE definition.items.kind = "list" -> _build_tuple_validator(definition, strict)
           [] definition.items.kind = "dict" ->
                array_built(definition, strict, build_validator_for(definition.items))
           [] definition.items.kind = "true" -> array_partial(strict, -1)
           [] definition.items.kind = "false" -> array_partial(strict, 0)

\* _build_tuple_validator, the additional_items it binds.
tuple_additional_items(definition) ==
    IF "additionalItems" \notin definition.keys
    THEN Identity
    ELSE CASE definition.additionalItems.kind = "true" -> Identity
           [] definition.additionalItems.kind = "false" -> Fail("additional_items_error")
           [] definition.additionalItems.kind = "dict" ->
                build_validator_for(definition.additionalItems)

tuple_built(definition, strict, item_validator, additional_items) ==
    Built(item_validator \o <<additional_items>>,
          [f |-> "validate_tuple", item_validator |-> item_validator,
           additional_items |-> additional_items,
           unique_items |-> "uniqueItems" \in definition.keys /\ definition.uniqueItems,
           strict |-> strict])

_build_tuple_validator(definition, strict) ==
    tuple_built(definition, strict, build_each(definition.items.items),
                tuple_additional_items(definition))

\* _build_object_validator, the keyword arguments it binds to
\* validate_object.
object_keywords(definition, strict) ==
    LET bound == {"strict"}
            \cup (IF "minProperties" \in definition.keys THEN {"min_properties"} ELSE {})
            \cup (IF "maxProperties" \in definition.keys THEN {"max_properties"} ELSE {})
            \cup (IF "required" \in definition.keys /\ definition.required # {}
                  THEN {"required_properties"} ELSE {})
            \cup (IF "properties" \in definition.keys THEN {"properties"} ELSE {})
            \cup (IF "additionalProperties" \in definition.keys
                  THEN {"additional_properties"} ELSE {})
            \cup (IF "patternProperties" \in definition.keys
                  THEN {"pattern_properties"} ELSE {})
    IN  [name \in bound |->
            CASE name = "strict" -> strict
              [] name = "min_properties" -> definition.minProperties
              [] name = "max_properties" -> definition.maxProperties
              [] name = "required_properties" -> definition.required
              [] name = "properties" ->
                    [i \in DOMAIN definition.properties |->
                        [key |-> definition.properties[i].key,
                         validator |-> build_validator_for(definition.properties[i].schema)]]
              [] name = "additional_properties" ->
                    CASE definition.additionalProperties.kind = "true" -> AdditionalTrue
                      [] definition.additionalProperties.kind = "false" -> AdditionalFalse
                      [] OTHER -> build_validator_for(definition.additionalProperties)
              [] name = "pattern_properties" ->
                    [i \in DOMAIN definition.patternProperties |->
                        [pattern |-> definition.patternProperties[i].pattern,
                         validator |->
                            build_validator_for(definition.patternProperties[i].schema)]]]

\* The validators built for the keywords, in the order they are built.
object_keyword_validators(keywords) ==
    (IF "properties" \in DOMAIN keywords
     THEN [i \in DOMAIN keywords["properties"] |-> keywords["properties"][i].validator]
     ELSE <<>>)
    \o (IF "additional_properties" \in DOMAIN keywords
        THEN <<keywords["additional_properties"]>> ELSE <<>>)
    \o (IF "pattern_properties" \in DOMAIN keywords
        THEN [i \in DOMAIN keywords["pattern_properties"] |->
                 keywords["pattern_properties"][i].validator]
        ELSE <<>>)

\* _build_object_validator, the last statements: with `if` and `then` or
\* `else` the validator and the conditional validator, both callables, are
\* handed to _build_all_of_validator as if they were schemas.
object_conditional(definition, validator) ==
    IF validator.f # "raise" /\ "if" \in definition.keys
       /\ ("then" \in definition.keys \/ "else" \in definition.keys)
    THEN Built(<<_build_conditional_validator(definition)>>,
               _build_all_of_validator(
                   <<validator, _build_conditional_validator(definition)>>))
    ELSE validator

object_built(definition, keywords) ==
    object_conditional(definition,
                       Built(object_keyword_validators(keywords),
                             [f |-> "validate_object", keywords |-> keywords]))

_build_object_validator(definition, strict) ==
    object_built(definition, object_keywords(definition, strict))

_build_validator_for_type(schema_type, definition, strict) ==
    CASE schema_type.k = "list" ->
            any_of_built([i \in DOMAIN schema_type.items |->
                            _build_validator_for_type(TypeName(schema_type.items[i]),
                                                      definition, strict)])
      [] schema_type.k = "str" /\ schema_type.s = "boolean" ->
            _build_boolean_validator(strict)
      [] schema_type.k = "str" /\ schema_type.s \in {"integer", "number"} ->
            numerical_partial(_build_numerical_validator(definition, strict))
      [] schema_type.k = "str" /\ schema_type.s = "string" ->
            _build_string_validator(definition, strict)
      [] schema_type.k = "str" /\ schema_type.s = "array" ->
            _build_array_validator(definition, strict)
      [] schema_type.k = "str" /\ schema_type.s = "object" ->
            _build_object_validator(definition, strict)
      [] schema_type.k = "str" /\ schema_type.s = "null" ->
            _build_null_validator(strict)
      [] OTHER -> _build_string_validator(definition, TRUE)

\* _build_conditional_validator, the validator bound for `then` or `else`:
\* none for true, a failure with code input_error for false.
conditional_branch(definition, key) ==
    IF key \notin definition.keys THEN None
    ELSE IF definition[key].kind = "false" THEN Fail("input_error")
    ELSE IF definition[key].kind # "true" THEN build_validator_for(definition[key])
    ELSE None

conditional_built(if_validator, then_validator, else_validator) ==
    Built(<<if_validator, then_validator, else_validator>>,
          [f |-> "validate_if_then_else", if_validator |-> if_validator,
           then_validator |-> then_validator, else_validator |-> else_validator])

_build_conditional_validator(definition) ==
    conditional_built(build_validator_for(definition.if),
                      conditional_branch(definition, "then"),
                      conditional_branch(definition, "else"))

\* build_validator_for, the validators appended to root_validators before
\* the first return: type (or the detected type, not strict), anyOf, oneOf,
\* allOf, not.
root_validators_of(schema) ==
    (IF "type" \in schema.keys
     THEN <<_build_validator_for_type(definition_type(schema), schema, TRUE)>>
     ELSE IF _detect_schema_type(schema) # TypeName("")
     THEN <<_build_validator_for_type(_detect_schema_type(schema), schema, FALSE)>>
     ELSE <<>>)
    \o (IF "anyOf" \in schema.keys THEN <<any_of_built(build_each(schema.anyOf))>> ELSE <<>>)
    \o (IF "oneOf" \in schema.keys THEN <<one_of_built(build_each(schema.oneOf))>> ELSE <<>>)
    \o (IF "allOf" \in schema.keys THEN <<_build_all_of_validator(schema.allOf)>> ELSE <<>>)
    \o (IF "not" \in schema.keys THEN <<not_built(build_validator_for(schema.not))>> ELSE <<>>)

\* build_validator_for, the last two statements.
build_return(root_validators) ==
    IF Len(root_validators) > 1
    THEN all_of_built(root_validators)
    ELSE IF Len(root_validators) = 1
    THEN root_validators[1]
    ELSE RaiseBuild("IndexError")

\* build_validator_for from `if "enum" in schema` on.
build_keywords(schema, root_validators) ==
    IF Raised(root_validators) # {}
    THEN Built(root_validators, None)
    ELSE IF "enum" \in schema.keys
    THEN _build_enum_validator(schema)
    ELSE IF "if" \in schema.keys
    THEN IF "then" \in schema.keys \/ "else" \in schema.keys
         THEN _build_conditional_validator(schema)
         ELSE Identity
    ELSE IF ("then" \in schema.keys \/ "else" \in schema.keys)
            /\ schema.keys \ {"then", "else"} = {}
    THEN Identity
    ELSE IF "const" \in schema.keys
    THEN _build_equal_validator(schema)
    ELSE build_return(root_validators
                      \o (IF "default" \in schema.keys
                          THEN <<[f |-> "_return_default", default |-> schema.default]>>
                          ELSE <<>>))

\* build_validator_for. An argument that is not a schema but a callable
\* fails at `"type" in schema`.
build_validator_for(any_schema) ==
    IF "kind" \notin DOMAIN any_schema THEN RaiseBuild("TypeError")
    ELSE IF any_schema.kind = "true" THEN Identity
    ELSE IF any_schema.kind = "false" THEN Fail("validation_error")
    ELSE IF any_schema.keys = {} THEN Identity
    ELSE build_keywords(any_schema, root_validators_of(any_schema))

-----------------------------------------------------------------------------
(* The builder's state machine: a caller holds a schema and a value, builds *)
(* the validator of the schema and calls it on the value.                  *)

\* The two lists a value may refer to: [] and [1].
BuildHeap == <<ListObject(<<>>), ListObject(<<IntV(1)>>)>>

BuildValues ==
    {Null, BoolV(TRUE), BoolV(FALSE), IntV(0), IntV(1), IntV(2), FloatV(10),
     FloatV(11), StrV(0), StrV(1), StrV(3), Ref(1), Ref(2), DictV(<<>>, <<>>)}

\* What the schema says of the type.
TypeChoices ==
    {<<>>} \cup {<<t>> : t \in {"boolean", "integer", "number", "string",
                                 "array", "object", "null"}}
           \cup {<<"integer", "string">>, <<"string", "integer">>,
                 <<"boolean", "null">>}

WithTypeChoice(schema, choice) ==
    IF Len(choice) = 0 THEN schema
    ELSE IF Len(choice) = 1 THEN With(schema, "type", choice[1])
    ELSE WithTypes(schema, choice)

\* The keyword that constrains one shape of value, if any; "title"
\* constrains none.
ShapeChoices ==
    {"", "title", "minimum", "exclusiveMinimum", "exclusiveMaximum",
     "minLength", "minItems", "required"}

WithShapeChoice(schema, choice) ==
    CASE choice = "" -> schema
      [] choice = "title" -> With(schema, "title", "t")
      [] choice \in {"minimum", "exclusiveMinimum", "exclusiveMaximum"} ->
            With(schema, choice, IntV(1))
      [] choice = "minLength" -> With(schema, "minLength", 2)
      [] choice = "minItems" -> With(schema, "minItems", 1)
      [] choice = "required" -> With(schema, "required", {"a"})

\* enum: [1], const: 1 or default: "a", if any.
ValueChoices == {"", "enum", "const", "default"}

WithValueChoice(schema, choice) ==
    CASE choice = "" -> schema
      [] choice = "enum" -> With(schema, "enum", <<IntV(1)>>)
      [] choice = "const" -> With(schema, "const", IntV(1))
      [] choice = "default" -> With(schema, "default", StrV(1))

\* The conditional keywords, if any.
ConditionalChoices ==
    {"", "if", "then", "then false", "if then", "if then false",
     "if false else false", "if minLength then maxLength"}

WithConditionalChoice(schema, choice) ==
    CASE choice = "" -> schema
      [] choice = "if" -> With(schema, "if", SchemaTrue)
      [] choice = "then" -> With(schema, "then", SchemaTrue)
      [] choice = "then false" -> With(schema, "then", SchemaFalse)
      [] choice = "if then" -> With(With(schema, "if", SchemaTrue), "then", SchemaTrue)
      [] choice = "if then false" ->
            With(With(schema, "if", SchemaTrue), "then", SchemaFalse)
      [] choice = "if false else false" ->
            With(With(schema, "if", SchemaFalse), "else", SchemaFalse)
      [] choice = "if minLength then maxLength" ->
            With(With(schema, "if", With(EmptySchema, "minLength", 1)),
                 "then", With(EmptySchema, "maxLength", 2))

BuildSchemas ==
    {SchemaTrue, SchemaFalse, With(EmptySchema, "not", SchemaTrue)}
    \cup {WithConditionalChoice(
              WithValueChoice(
                  WithShapeChoice(WithTypeChoice(EmptySchema, t), s), v), c) :
            t \in TypeChoices, s \in ShapeChoices, v \in ValueChoices,
            c \in ConditionalChoices}

bInit ==
    /\ bSchema \in BuildSchemas
    /\ bValue \in BuildValues
    /\ bValidator = None
    /\ bPc = "schema"
    /\ bRes = NoResult

\* validator = build_validator_for(schema)
Build_validator_for ==
    /\ bPc = "schema"
    /\ bValidator' = build_validator_for(bSchema)
    /\ bPc' = IF bValidator'.f = "raise" THEN "failed" ELSE "built"
    /\ UNCHANGED <<bSchema, bValue, bRes>>
    /\ UNCHANGED <<cVars, sVars, kVars, nVars, eVars, oVars, restVars>>

\* validator(value)
Build_validate ==
    /\ bPc = "built"
    /\ bRes' = Run(bValidator, bValue, BuildHeap)
    /\ bPc' = "called"
    /\ UNCHANGED <<bSchema, bValue, bValidator>>
    /\ UNCHANGED <<cVars, sVars, kVars, nVars, eVars, oVars, restVars>>

BuildInit == bInit /\ cIdle /\ sIdle /\ kIdle /\ nIdle /\ eIdle /\ oIdle /\ restIdle

BuildNext == Build_validator_for \/ Build_validate

SpecBuild == BuildInit /\ [][BuildNext]_vars

-----------------------------------------------------------------------------
(* JsonUri.__add__. A string is the sequence of its characters; None is    *)
(* told apart from every string.                                           *)

PyNone == <<"None">>

\* str.startswith(prefix).
startswith(string, prefix) ==
    Len(string) >= Len(prefix) /\ SubSeq(string, 1, Len(prefix)) = prefix

\* The length of the longest prefix of the string made of characters that
\* satisfy the class.
PrefixLength(string, InClass(_)) ==
    CHOOSE n \in 0..Len(string) :
        /\ \A i \in 1..n : InClass(string[i])
        /\ n = Len(string) \/ ~InClass(string[n + 1])

\* The string from position `from` on.
Tail_from(string, from) == SubSeq(string, from, Len(string))

ProtocolCharacter(c) == c \in {"a", "b", ".", "-"}

NotHash(c) == c # "#"

\* JSON_URI_PARTIAL_REGEX, the optional group
\* ((?P<protocol>[a-z\.\-]+)\:\/\/): the length of what it matches, 0 when
\* it matches nothing.
match_protocol_length(string) ==
    IF PrefixLength(string, ProtocolCharacter) >= 1
       /\ startswith(Tail_from(string, PrefixLength(string, ProtocolCharacter) + 1),
                     <<":", "/", "/">>)
    THEN PrefixLength(string, ProtocolCharacter) + 3
    ELSE 0

\* An optional group ([^#]+) at the start of the string: what it matches,
\* None when it matches nothing.
match_not_hash(string) ==
    IF PrefixLength(string, NotHash) = 0
    THEN PyNone
    ELSE SubSeq(string, 1, PrefixLength(string, NotHash))

\* The optional group (\#(?P<fragment>[^#]+)) at the start of the string.
match_fragment(string) ==
    IF startswith(string, <<"#">>)
    THEN match_not_hash(Tail_from(string, 2))
    ELSE PyNone

\* re.match(JSON_URI_PARTIAL_REGEX, other): the groups protocol, path and
\* fragment. Every group is optional, so the match never fails.
match_partial(other) ==
    LET p == match_protocol_length(other)
        rest == Tail_from(other, p + 1)
        path == match_not_hash(rest)
    IN  [protocol |-> IF p = 0 THEN PyNone ELSE SubSeq(other, 1, p - 3),
         path |-> path,
         fragment |-> match_fragment(
                         Tail_from(rest, IF path = PyNone THEN 1 ELSE Len(path) + 1))]

RECURSIVE split(_, _)

\* str.split(separator), for a separator of one character.
split(string, separator) ==
    LET n == PrefixLength(string, LAMBDA c : c # separator)
    IN  IF n = Len(string)
        THEN <<string>>
        ELSE <<SubSeq(string, 1, n)>> \o split(Tail_from(string, n + 2), separator)

RECURSIVE join(_, _)

\* separator.join(items).
join(separator, items) ==
    IF Len(items) = 0 THEN <<>>
    ELSE IF Len(items) = 1 THEN items[1]
    ELSE items[1] \o <<separator>> \o join(separator, Tail(items))

\* A JsonUri, or the exception that ended the call.
Uri_of(protocol, path_, fragment) ==
    [st |-> "ok", protocol |-> protocol, path |-> path_, _fragment |-> fragment]

Uri_raise(exception) ==
    [st |-> exception, protocol |-> PyNone, path |-> PyNone, _fragment |-> PyNone]

\* last_item[-4] == "." or last_item[-5] == ".": an index before the start
\* of the string is an IndexError.
is_file(last_item) ==
    IF Len(last_item) < 4 THEN "IndexError"
    ELSE IF last_item[Len(last_item) - 3] = "." THEN "True"
    ELSE IF Len(last_item) < 5 THEN "IndexError"
    ELSE IF last_item[Len(last_item) - 4] = "." THEN "True"
    ELSE "False"

RECURSIVE add_items(_, _)

\* The loop over new_path.split("/"): path_items afterwards, or IndexError
\* when pop() found the list empty.
add_items(path_items, new_items) ==
    IF Len(new_items) = 0
    THEN [st |-> "ok", items |-> path_items]
    ELSE IF new_items[1] = <<".", ".">>
    THEN IF Len(path_items) = 0
         THEN [st |-> "IndexError", items |-> <<>>]
         ELSE add_items(SubSeq(path_items, 1, Len(path_items) - 1), Tail(new_items))
    ELSE IF new_items[1] = <<".">>
    THEN add_items(path_items, Tail(new_items))
    ELSE add_items(Append(path_items, new_items[1]), Tail(new_items))

\* The statements of __add__ from `path_items = self.path.split("/")` on.
add_relative(self, new_path, fragment) ==
    LET path_items == split(self.path, "/")
        file == is_file(path_items[Len(path_items)])
        added == add_items(IF file = "True"
                           THEN SubSeq(path_items, 1, Len(path_items) - 1)
                           ELSE path_items,
                           split(new_path, "/"))
    IN  IF file = "IndexError" THEN Uri_raise("IndexError")
        ELSE IF added.st # "ok" THEN Uri_raise(added.st)
        ELSE Uri_of(self.protocol, join("/", added.items), fragment)

\* __add__ after the match.
add_matched(self, matched) ==
    IF matched.protocol # PyNone
    THEN Uri_of(matched.protocol, matched.path, matched.fragment)
    ELSE IF matched.path = PyNone
    THEN Uri_raise("AttributeError")
    ELSE IF startswith(matched.path, <<"/">>)
    THEN Uri_of(self.protocol, matched.path, matched.fragment)
    ELSE add_relative(self, matched.path, matched.fragment)

JsonUri___add__(self, other) ==
    IF startswith(other, <<"#">>)
    THEN Uri_of(self.protocol, self.path, Tail(other))
    ELSE add_matched(self, match_partial(other))

-----------------------------------------------------------------------------
(* JsonUri.__add__, called on the URIs and the strings a schema gives it.  *)

\* The last item of a receiver's path: "a", "aaaa", "aaaaa", "a.aaa",
\* "a.aaaa".
LastItems ==
    {<<"a">>, <<"a", "a", "a", "a">>, <<"a", "a", "a", "a", "a">>,
     <<"a", ".", "a", "a", "a">>, <<"a", ".", "a", "a", "a", "a">>}

Directories == {<<"a">>, <<"b">>}

\* The paths of the receivers: "/", up to MaxDirectories directories and
\* a last item, or a last item alone.
ReceiverPaths ==
    {join("/", <<<<>>>> \o directories \o <<last>>) :
        directories \in SeqsUpTo(Directories, MaxDirectories), last \in LastItems}
    \cup LastItems

Receivers ==
    {Uri_of(<<"a">>, path_, fragment) :
        path_ \in ReceiverPaths, fragment \in {PyNone, <<"a">>}}

\* The segments of a relative path: "..", ".", "a", "b.aaa".
Segments == {<<".", ".">>, <<".">>, <<"a">>, <<"b", ".", "a", "a", "a">>}

RelativePaths ==
    {join("/", segments) :
        segments \in SeqsUpTo(Segments, MaxSegments) \ {<<>>}}

\* A relative path with or without a fragment; a fragment alone; an
\* absolute path; a URI; the empty string.
Others ==
    RelativePaths
    \cup {relative \o <<"#", "b">> : relative \in RelativePaths}
    \cup {<<"#", "b">>, <<"/", "b">>, <<"b", ":", "/", "/", "b">>, <<>>}

uInit ==
    /\ uSelf \in Receivers
    /\ uOther \in Others
    /\ uPc = "ready"
    /\ uRes = <<>>

\* self + other
Uri_add ==
    /\ uPc = "ready"
    /\ uRes' = JsonUri___add__(uSelf, uOther)
    /\ uPc' = "added"
    /\ UNCHANGED <<uSelf, uOther>>
    /\ UNCHANGED <<cVars, sVars, kVars, nVars, eVars, oVars, bVars, jVars, tVars>>

UriInit ==
    uInit /\ cIdle /\ sIdle /\ kIdle /\ nIdle /\ eIdle /\ oIdle /\ bIdle /\ jIdle /\ tIdle

UriNext == Uri_add

SpecUri == UriInit /\ [][UriNext]_vars

-----------------------------------------------------------------------------
(* JsonSchema: normalization, anchors, queries, reference handles and      *)
(* dump. A JSON node is a string, a list or a mapping (its keys in         *)
(* insertion order); a normalized document also holds reference handles.   *)
(* Every "$ref" of the documents points into the document itself.          *)

JStr(v) == [t |-> "str", v |-> v]

JList(items) == [t |-> "list", items |-> items]

JDict(keys, vals) == [t |-> "dict", keys |-> keys, vals |-> vals]

\* JsonReference(owner, uri, ref_document): `at` tells the handle from
\* every other handle of the schema; it is the pointer to the mapping the
\* handle replaced.
JsonReference(uri, ref_document, at) ==
    [t |-> "ref", uri |-> uri, _ref_document |-> ref_document, at |-> at]

\* key in node, node[key], and node after `del node[key]`.
HasKey(node, key) == \E i \in DOMAIN node.keys : node.keys[i] = key

GetItem(node, key) == node.vals[CHOOSE i \in DOMAIN node.keys : node.keys[i] = key]

DelItem(node, key) ==
    LET kept == {i \in DOMAIN node.keys : node.keys[i] # key}
        index(j) == CHOOSE i \in kept : Cardinality({h \in kept : h < i}) = j - 1
    IN  JDict([j \in 1..Cardinality(kept) |-> node.keys[index(j)]],
              [j \in 1..Cardinality(kept) |-> node.vals[index(j)]])

\* str(i) for the index of a list item.
IndexString(i) == CASE i = 0 -> "0" [] i = 1 -> "1" [] OTHER -> "2"

\* enumerate(node): the indices of a list, as the keys of its items.
IndexKeys(items) == [i \in DOMAIN items |-> IndexString(i - 1)]

RECURSIVE JoinPath(_)

\* "/".join([str(i) for i in path]).
JoinPath(path) ==
    IF Len(path) = 0 THEN ""
    ELSE IF Len(path) = 1 THEN path[1]
    ELSE path[1] \o "/" \o JoinPath(Tail(path))

\* "#/" + "/".join(...): the pointer to the node at the path.
PointerTo(path) == "#/" \o JoinPath(path)

\* The anchor table when the first declaration of a name is the one kept.
SetAnchor_first(anchors, name, pointer) ==
    [n \in DOMAIN anchors \cup {name} |-> IF n \in DOMAIN anchors THEN anchors[n] ELSE pointer]

\* anchors[name] = pointer.
SetAnchor(anchors, name, pointer) ==
    [n \in DOMAIN anchors \cup {name} |-> IF n = name THEN pointer ELSE anchors[n]]

\* _process_node on a mapping, the two anchor keywords: the anchor table
\* after them.
anchors_declared(node, path, anchors) ==
    LET dynamic == IF HasKey(node, "$dynamicAnchor")
                   THEN SetAnchor(anchors, "#" \o GetItem(node, "$dynamicAnchor").v,
                                  PointerTo(path))
                   ELSE anchors
    IN  IF HasKey(node, "$anchor")
        THEN SetAnchor(dynamic, "#" \o GetItem(node, "$anchor").v, PointerTo(path))
        ELSE dynamic

\* The mapping after `del node["$dynamicAnchor"]` and `del node["$anchor"]`.
anchors_deleted(node) ==
    LET dynamic == IF HasKey(node, "$dynamicAnchor")
                   THEN DelItem(node, "$dynamicAnchor") ELSE node
    IN  IF HasKey(dynamic, "$anchor") THEN DelItem(dynamic, "$anchor") ELSE dynamic

\* self._id + node["$ref"] for a reference that starts with "#": the
\* fragment of the URI, "" when nothing follows the "#".
ReferenceFragment(ref) == IF ref = "#" THEN "" ELSE ref

\* "$ref" in node and isinstance(node["$ref"], str)
is_reference(node, keyword) == HasKey(node, keyword) /\ GetItem(node, keyword).t = "str"

RECURSIVE _process_node(_, _, _)
RECURSIVE process_items(_, _, _, _, _)

\* One more item of a mapping or of a list has been processed.
process_items_next(keys, vals, path, done, r) ==
    process_items(keys, vals, path, Append(done, r.node), r.anchors)

\* {key: self._process_node(value, key) for key, value in node.items()}:
\* the processed values and the anchor table afterwards.
process_items(keys, vals, path, done, anchors) ==
    IF Len(done) = Len(keys)
    THEN [vals |-> done, anchors |-> anchors]
    ELSE process_items_next(keys, vals, path, done,
                            _process_node(vals[Len(done) + 1],
                                          Append(path, keys[Len(done) + 1]), anchors))

list_processed(r) == [node |-> JList(r.vals), anchors |-> r.anchors]

dict_processed(keys, r) == [node |-> JDict(keys, r.vals), anchors |-> r.anchors]

\* JsonReference(self, ref, {...}) or JsonReference(self, ref): the
\* overlay is the processed rest of the mapping.
reference_processed(ref, keys, path, r) ==
    [node |-> JsonReference(ReferenceFragment(ref), JDict(keys, r.vals), PointerTo(path)),
     anchors |-> r.anchors]

\* _process_node on a mapping, after the anchor keywords.
process_mapping(node, path, anchors) ==
    IF is_reference(node, "$ref")
    THEN reference_processed(GetItem(node, "$ref").v, DelItem(node, "$ref").keys, path,
                             process_items(DelItem(node, "$ref").keys,
                                           DelItem(node, "$ref").vals, path, <<>>, anchors))
    ELSE IF is_reference(node, "$dynamicRef")
    THEN reference_processed(GetItem(node, "$dynamicRef").v,
                             DelItem(node, "$dynamicRef").keys, path,
                             process_items(DelItem(node, "$dynamicRef").keys,
                                           DelItem(node, "$dynamicRef").vals, path,
                                           <<>>, anchors))
    ELSE dict_processed(node.keys, process_items(node.keys, node.vals, path, <<>>, anchors))

\* _process_node(node, key), with _current_path already extended by key:
\* the processed node and the anchor table afterwards.
_process_node(node, path, anchors) ==
    CASE node.t = "list" ->
            list_processed(process_items(IndexKeys(node.items), node.items, path,
                                         <<>>, anchors))
      [] node.t = "dict" ->
            process_mapping(anchors_deleted(node), path,
                            anchors_declared(node, path, anchors))
      [] OTHER -> [node |-> node, anchors |-> anchors]

\* The empty anchor table.
NoAnchors == [n \in {} |-> ""]

\* _load, the "$id" keyword: the id of the schema afterwards.
load_id(id_, document) ==
    IF HasKey(document, "$id") THEN GetItem(document, "$id").v ELSE id_

\* _load, the last two statements before `_ready = True`: the root
\* mapping is not processed as a node, its values are.
load_document(document, anchors) ==
    dict_processed((IF HasKey(document, "$id") THEN DelItem(document, "$id") ELSE document).keys,
                   process_items(
                       (IF HasKey(document, "$id") THEN DelItem(document, "$id") ELSE document).keys,
                       (IF HasKey(document, "$id") THEN DelItem(document, "$id") ELSE document).vals,
                       <<>>, <<>>, anchors))

\* What a query, a handle or dump produces: the node returned or the
\* exception raised, and the memo: the handles' cached `document`, the
\* lru_cache of query, and what the operation did so far (the calls of
\* query it made and the mappings it created).
Found(out, memo) == [st |-> "ok", out |-> out, memo |-> memo]

Failed(exception, memo) == [st |-> exception, out |-> JStr(""), memo |-> memo]

NoMemo ==
    [resolved |-> [at \in {} |-> JStr("")], cache |-> [query \in {} |-> JStr("")],
     queried |-> 0, created |-> 0]

\* The strings that name a part of a pointer.
PartNames == {"a", "b", "k", "n", "x", "y", "0", "1"}

RECURSIVE PartsUpTo(_)

PartsUpTo(n) ==
    IF n = 0 THEN {<<>>}
    ELSE PartsUpTo(n - 1)
         \cup {Append(parts, name) : parts \in PartsUpTo(n - 1), name \in PartNames}

\* The pointers of at most MaxDepth parts, each with its parts.
Pointers == {<<PointerTo(parts), parts>> : parts \in PartsUpTo(MaxDepth) \ {<<>>}}

\* query.lstrip("#").strip("/").split("/"), for the strings "#", "",
\* "#name" and "#/part/.../part".
query_parts(query) ==
    IF query \in {"", "#", "#/"}
    THEN <<"">>
    ELSE IF \E entry \in Pointers : entry[1] = query
    THEN (CHOOSE entry \in Pointers : entry[1] = query)[2]
    ELSE <<CHOOSE name \in PartNames : query = "#" \o name>>

\* int(item): -1 stands for the ValueError of a string that is no number.
int(item) == CASE item = "0" -> 0 [] item = "1" -> 1 [] item = "2" -> 2 [] OTHER -> -1

\* {**ref_document, **doc_fragment}: the keys of the first mapping, then
\* the new keys of the second; a key of both has the value of the second.
merge(first, second) ==
    LET new == SelectSeq(second.keys, LAMBDA key : ~HasKey(first, key))
        keys == first.keys \o new
    IN  JDict(keys, [i \in DOMAIN keys |->
                        IF HasKey(second, keys[i])
                        THEN GetItem(second, keys[i])
                        ELSE GetItem(first, keys[i])])

Remember(function, key, value) ==
    [k \in DOMAIN function \cup {key} |-> IF k = key THEN value ELSE function[k]]

\* cached_property: `document` has been computed for this handle before.
cached_property(handle, memo) == handle.at \in DOMAIN memo.resolved

RECURSIVE JsonReference_document_of(_, _, _, _)
RECURSIVE JsonSchema_query(_, _, _, _, _)
RECURSIVE walk(_, _, _, _, _)

\* JsonReference.document, the last lines: the overlay is merged with a
\* mapping, and the result is what cached_property keeps.
reference_resolved(handle, r) ==
    IF r.st # "ok" THEN r
    ELSE IF r.out.t = "dict"
    THEN Found(merge(handle._ref_document, r.out),
               [r.memo EXCEPT !.resolved = Remember(@, handle.at,
                                               merge(handle._ref_document, r.out)),
                              !.created = @ + 1])
    ELSE Found(r.out, [r.memo EXCEPT !.resolved = Remember(@, handle.at, r.out)])

\* JsonReference.document after the query: a handle found is resolved in
\* turn.
reference_queried(handle, schema, depth, r) ==
    IF r.st = "ok" /\ r.out.t = "ref"
    THEN reference_resolved(handle,
                            JsonReference_document_of(r.out, schema, r.memo, depth + 1))
    ELSE reference_resolved(handle, r)

\* JsonReference.document, a cached_property: `schema` is the owner, its
\* document and its anchors.
JsonReference_document_of(handle, schema, memo, depth) ==
    IF cached_property(handle, memo)
    THEN Found(memo.resolved[handle.at], memo)
    ELSE IF depth > RecursionLimit
    THEN Failed("RecursionError", memo)
    ELSE reference_queried(handle, schema, depth,
                           JsonSchema_query(handle.uri, schema.anchors, schema, memo,
                                            depth + 1))

\* lru_cache keeps what query returned.
query_returned(query, r) ==
    IF r.st = "ok"
    THEN Found(r.out, [r.memo EXCEPT !.cache = Remember(@, query, r.out)])
    ELSE r

\* JsonSchema.query under lru_cache. `anchors` is the anchor table at the
\* time of the call, `schema` the document and the anchors once
\* self.document has been read.
JsonSchema_query(query, anchors, schema, memo, depth) ==
    IF query \in DOMAIN memo.cache
    THEN Found(memo.cache[query], [memo EXCEPT !.queried = @ + 1])
    ELSE IF depth > RecursionLimit
    THEN Failed("RecursionError", memo)
    ELSE query_returned(query,
                        walk(schema.document,
                             query_parts(IF query \in DOMAIN anchors
                                         THEN anchors[query] ELSE query),
                             schema, [memo EXCEPT !.queried = @ + 1], depth))

\* fragment[item] on a handle: JsonReference.__getitem__ on its document.
walk_handle(parts, schema, depth, r) ==
    IF r.st # "ok" THEN r
    ELSE IF r.out.t = "dict"
    THEN IF HasKey(r.out, parts[1])
         THEN walk(GetItem(r.out, parts[1]), Tail(parts), schema, r.memo, depth)
         ELSE Failed("KeyError", r.memo)
    ELSE Failed("TypeError", r.memo)

\* JsonSchema.query, the loop over query_parts.
walk(fragment, parts, schema, memo, depth) ==
    IF Len(parts) = 0
    THEN Found(fragment, memo)
    ELSE CASE fragment.t = "dict" ->
                IF HasKey(fragment, parts[1])
                THEN walk(GetItem(fragment, parts[1]), Tail(parts), schema, memo, depth)
                ELSE Failed("LookupError", memo)
           [] fragment.t = "list" ->
                IF int(parts[1]) = -1 THEN Failed("ValueError", memo)
                ELSE IF int(parts[1]) > Len(fragment.items) THEN Failed("LookupError", memo)
                ELSE IF int(parts[1]) = Len(fragment.items) THEN Failed("IndexError", memo)
                ELSE walk(fragment.items[int(parts[1]) + 1], Tail(parts), schema, memo,
                          depth)
           [] fragment.t = "ref" ->
                walk_handle(parts, schema, depth,
                            JsonReference_document_of(fragment, schema, memo, depth + 1))
           [] OTHER -> Failed("TypeError", memo)

RECURSIVE _detect(_, _, _, _, _)
RECURSIVE detect_items(_, _, _, _, _)
RECURSIVE _dump_node(_, _, _, _, _)
RECURSIVE dump_items(_, _, _, _, _, _)

\* _get_cycling_references, what _detect has found so far: the handles in
\* cycling_references (each given by its `at`), or the exception raised.
Detected(cycling, memo) == [st |-> "ok", cycling |-> cycling, memo |-> memo]

\* _detect(obj.document) for a handle.
detect_document(stack, schema, depth, found, r) ==
    IF r.st # "ok"
    THEN [st |-> r.st, cycling |-> found.cycling, memo |-> r.memo]
    ELSE _detect(r.out, stack, schema, depth + 1, Detected(found.cycling, r.memo))

\* for item in obj: _detect(item)
detect_items(items, stack, schema, depth, found) ==
    IF Len(items) = 0 \/ found.st # "ok"
    THEN found
    ELSE detect_items(Tail(items), stack, schema, depth,
                      _detect(items[1], stack, schema, depth, found))

\* _detect(obj): `stack` holds the handles among the objects on the stack.
_detect(obj, stack, schema, depth, found) ==
    IF found.st # "ok" THEN found
    ELSE CASE obj.t = "list" -> detect_items(obj.items, stack, schema, depth, found)
           [] obj.t = "dict" -> detect_items(obj.vals, stack, schema, depth, found)
           [] obj.t = "ref" ->
                IF obj.at \in stack
                THEN Detected(found.cycling \cup {obj.at}, found.memo)
                ELSE detect_document(stack \cup {obj.at}, schema, depth, found,
                                     JsonReference_document_of(obj, schema, found.memo,
                                                               depth))
           [] OTHER -> found

_get_cycling_references(node, schema, memo) ==
    _detect(node, {}, schema, 0, Detected({}, memo))

\* One more item of a list or of a mapping has been dumped.
dump_items_next(items, done, cycling, schema, depth, r) ==
    IF r.st # "ok" THEN r
    ELSE dump_items(items, Append(done, r.out), cycling, schema, r.memo, depth)

\* [_dump_node(item, cycling_references) for item in node]
dump_items(items, done, cycling, schema, memo, depth) ==
    IF Len(done) = Len(items)
    THEN Found(done, memo)
    ELSE dump_items_next(items, done, cycling, schema, depth,
                         _dump_node(items[Len(done) + 1], cycling, schema, memo, depth))

dumped_list(r) == IF r.st # "ok" THEN r ELSE Found(JList(r.out), r.memo)

dumped_dict(keys, r) == IF r.st # "ok" THEN r ELSE Found(JDict(keys, r.out), r.memo)

\* _dump_node(node.document, cycling_references)
dump_document(cycling, schema, depth, r) ==
    IF r.st # "ok" THEN r
    ELSE _dump_node(r.out, cycling, schema, r.memo, depth + 1)

\* _dump_node: every handle has the owner's URI, so a cycling handle is
\* dumped as {"$ref": node.uri.fragment}.
_dump_node(node, cycling, schema, memo, depth) ==
    CASE node.t = "list" -> dumped_list(dump_items(node.items, <<>>, cycling, schema, memo, depth))
      [] node.t = "dict" ->
            dumped_dict(node.keys, dump_items(node.vals, <<>>, cycling, schema, memo, depth))
      [] node.t = "ref" ->
            IF node.at \in cycling
            THEN Found(JDict(<<"$ref">>, <<JStr(node.uri)>>), memo)
            ELSE IF depth > RecursionLimit
            THEN Failed("RecursionError", memo)
            ELSE dump_document(cycling, schema, depth,
                               JsonReference_document_of(node, schema, memo, depth))
      [] OTHER -> Found(node, memo)

\* dump(schema), after _get_cycling_references.
dump_detected(schema, found) ==
    IF found.st # "ok"
    THEN Failed(found.st, found.memo)
    ELSE dumped_dict(schema.document.keys,
                     dump_items(schema.document.vals, <<>>, found.cycling, schema,
                                found.memo, 0))

dump(schema, memo) ==
    dump_detected(schema, _get_cycling_references(schema.document, schema, memo))

-----------------------------------------------------------------------------
(* The life of one JsonSchema: construction or JsonSchemaStore.get, then
   id, document, _load, query, dump and the `document` of its handles, in
   any order. *)

\* A JsonSchema object: its fields, and `object`, which tells the objects
\* that _document has been bound to apart (0 is the caller's document,
\* every run of the comprehension in _load makes a new mapping).
JsonSchema(document, id_) ==
    [_id |-> id_, _document |-> document, _ready |-> FALSE, anchors |-> NoAnchors,
     object |-> 0]

\* What query, a handle and dump see of the owner once self.document has
\* been read.
Owner(self) == [document |-> self._document, anchors |-> self.anchors]

\* A _load that runs again on a schema that is ready.
load_always(ready) == TRUE

\* _load, the guard: `if self._ready: return`.
load_needed(ready) == ~ready

\* JsonSchemaStore.add under `if not JsonSchemaStore.has(self._id)`.
store_added(store, id_) == IF id_ \in DOMAIN store THEN store ELSE Remember(store, id_, "self")

\* _load after the guard.
loaded(self, store, id_, r) ==
    [self |-> [_id |-> id_, _document |-> r.node, _ready |-> TRUE, anchors |-> r.anchors,
               object |-> self.object + 1],
     store |-> store_added(store, id_)]

\* JsonSchema._load: the schema and JsonSchemaStore.store afterwards.
JsonSchema__load(self, store) ==
    IF load_needed(self._ready)
    THEN loaded(self, store, load_id(self._id, self._document),
                load_document(self._document, self.anchors))
    ELSE [self |-> self, store |-> store]

RECURSIVE handles(_)
RECURSIVE handles_of_items(_)

handles_of_items(items) ==
    IF Len(items) = 0 THEN {} ELSE handles(items[1]) \cup handles_of_items(Tail(items))

\* The JsonReference objects of a processed node, those of the overlays
\* included.
handles(node) ==
    CASE node.t = "list" -> handles_of_items(node.items)
      [] node.t = "dict" -> handles_of_items(node.vals)
      [] node.t = "ref" -> {node} \cup handles_of_items(node._ref_document.vals)
      [] OTHER -> {}

\* The value of an operation that returns None.
NoNode == [t |-> "none"]

\* A new operation starts: nothing queried, nothing created yet.
Fresh(memo) == [memo EXCEPT !.queried = 0, !.created = 0]

Last(op, arg, r) ==
    [op |-> op, arg |-> arg, st |-> r.st, out |-> r.out, queried |-> r.memo.queried,
     created |-> r.memo.created]

NoLast == [op |-> "none", arg |-> "", st |-> "ok", out |-> NoNode, queried |-> 0, created |-> 0]

Reference(ref) == JDict(<<"$ref">>, <<JStr(ref)>>)

\* The documents: a root mapping with the keys "a" and "b", and some more
\* keys at the root.
NodesA ==
    {Reference("#/b"),
     JDict(<<"$ref", "x", "y">>, <<JStr("#/b"), JStr("2"), JStr("3")>>),
     Reference("#/a"),
     JDict(<<"k">>, <<Reference("#/a")>>),
     JDict(<<"$anchor", "x">>, <<JStr("n"), JStr("1")>>),
     Reference("#n"),
     JDict(<<"$ref", "$dynamicRef">>, <<JStr("#/b"), JStr("#/b")>>),
     JList(<<JDict(<<"$anchor">>, <<JStr("n")>>), JDict(<<"$dynamicRef">>, <<JStr("#/b")>>)>>)}

NodesB ==
    {JStr("1"),
     JDict(<<"x">>, <<JStr("1")>>),
     Reference("#/a"),
     JDict(<<"$anchor", "k">>, <<JStr("n"), Reference("#/a")>>),
     JDict(<<"$dynamicAnchor", "y">>, <<JStr("n"), JDict(<<"$anchor">>, <<JStr("n")>>)>>)}

RootKeys ==
    {JDict(<<>>, <<>>),
     JDict(<<"$id">>, <<JStr("http://x/s.json")>>),
     JDict(<<"n">>, <<JStr("w")>>),
     JDict(<<"$ref">>, <<JStr("#/b")>>)}

Documents ==
    {JDict(root.keys \o <<"a", "b">>, root.vals \o <<a, b>>) :
        root \in RootKeys, a \in NodesA, b \in NodesB}

\* The queries of the callers.
Queries == {"#/a", "#/b", "#n", "#/a/x", "#/b/k"}

\* The schema is constructed by the caller from a document, or it is what
\* JsonSchemaStore.get returned: JsonSchemaStore.load has constructed it
\* and added it to the store.
jInit ==
    /\ jRaw \in Documents
    /\ \/ /\ jSelf = JsonSchema(jRaw, "self://schema:local@1")
          /\ jStore = [source \in {} |-> "self"]
       \/ /\ jSelf = JsonSchema(jRaw, "file:///s.json")
          /\ jStore = [source \in {"file:///s.json"} |-> "self"]
    /\ jMemo = NoMemo
    /\ jLast = NoLast

\* JsonSchema.id
Schema_id ==
    /\ jSelf' = JsonSchema__load(jSelf, jStore).self
    /\ jStore' = JsonSchema__load(jSelf, jStore).store
    /\ jLast' = Last("id", "", Found(JStr(jSelf'._id), NoMemo))
    /\ UNCHANGED <<jRaw, jMemo>>
    /\ UNCHANGED <<cVars, sVars, kVars, nVars, eVars, oVars, bVars, uVars, tVars>>

\* JsonSchema.document
Schema_document ==
    /\ jSelf' = JsonSchema__load(jSelf, jStore).self
    /\ jStore' = JsonSchema__load(jSelf, jStore).store
    /\ jLast' = Last("document", "", Found(jSelf'._document, NoMemo))
    /\ UNCHANGED <<jRaw, jMemo>>
    /\ UNCHANGED <<cVars, sVars, kVars, nVars, eVars, oVars, bVars, uVars, tVars>>

\* JsonSchema._load
Schema__load ==
    /\ jSelf' = JsonSchema__load(jSelf, jStore).self
    /\ jStore' = JsonSchema__load(jSelf, jStore).store
    /\ jLast' = Last("_load", "", Found(NoNode, NoMemo))
    /\ UNCHANGED <<jRaw, jMemo>>
    /\ UNCHANGED <<cVars, sVars, kVars, nVars, eVars, oVars, bVars, uVars, tVars>>

\* What an operation that goes through the memo leaves behind.
Completed(op, arg, r) ==
    /\ jMemo' = Fresh(r.memo)
    /\ jLast' = Last(op, arg, r)

\* JsonSchema.query(query): a hit of lru_cache returns at once; otherwise
\* the anchor table is read first, as it is then, and self.document after.
Schema_query ==
    \E query \in Queries :
        /\ IF query \in DOMAIN jMemo.cache
           THEN UNCHANGED <<jSelf, jStore>>
           ELSE /\ jSelf' = JsonSchema__load(jSelf, jStore).self
                /\ jStore' = JsonSchema__load(jSelf, jStore).store
        /\ Completed("query", query,
                    JsonSchema_query(query, jSelf.anchors, Owner(jSelf'), Fresh(jMemo), 0))
        /\ UNCHANGED jRaw
        /\ UNCHANGED <<cVars, sVars, kVars, nVars, eVars, oVars, bVars, uVars, tVars>>

\* handle.document, for a handle of the normalized document.
Reference_document ==
    \E handle \in handles(jSelf._document) :
        /\ jSelf._ready
        /\ Completed("reference", handle.at,
                    JsonReference_document_of(handle, Owner(jSelf), Fresh(jMemo), 0))
        /\ UNCHANGED <<jRaw, jSelf, jStore>>
        /\ UNCHANGED <<cVars, sVars, kVars, nVars, eVars, oVars, bVars, uVars, tVars>>

\* JsonSchema.dump: dump(schema) reads schema.document first.
Schema_dump ==
    /\ jSelf' = JsonSchema__load(jSelf, jStore).self
    /\ jStore' = JsonSchema__load(jSelf, jStore).store
    /\ Completed("dump", "", dump(Owner(jSelf'), Fresh(jMemo)))
    /\ UNCHANGED jRaw
    /\ UNCHANGED <<cVars, sVars, kVars, nVars, eVars, oVars, bVars, uVars, tVars>>

SchemaInit ==
    jInit /\ cIdle /\ sIdle /\ kIdle /\ nIdle /\ eIdle /\ oIdle /\ bIdle /\ uIdle /\ tIdle

SchemaNext ==
    \/ Schema_id
    \/ Schema_document
    \/ Schema__load
    \/ Schema_query
    \/ Reference_document
    \/ Schema_dump

SpecSchema == SchemaInit /\ [][SchemaNext]_vars

-----------------------------------------------------------------------------
(* JsonSchemaStore.get called by several threads at once. The code takes
   no lock, so the threads interleave between any two statements; every
   step below is one such statement of one caller. *)

Callers == 1..MaxCallers

\* No JsonSchema object.
NoSchemaObject == 0

tInit ==
    /\ tUri \in [Callers -> {FileA, FileB}]
    /\ tPc = [caller \in Callers |-> "get_has"]
    /\ tLocal = [caller \in Callers |-> NoSchemaObject]
    /\ tResult = [caller \in Callers |-> NoSchemaObject]
    /\ tStore = {}
    /\ tLoaded = {}
    /\ tCreated = 0

\* The caller goes on at the statement, its locals as they are.
Goto(caller, pc) ==
    /\ tPc' = [tPc EXCEPT ![caller] = pc]
    /\ UNCHANGED <<tUri, tLocal, tResult, tStore, tLoaded, tCreated>>
    /\ UNCHANGED <<cVars, sVars, kVars, nVars, eVars, oVars, bVars, uVars, jVars>>

\* JsonSchemaStore.get: `if cls.has(uri)`; the protocol has a loader.
Get_has(caller) ==
    /\ tPc[caller] = "get_has"
    /\ Goto(caller, IF StoreHas(tStore, tUri[caller]) THEN "get_item" ELSE "load_has")

\* JsonSchemaStore.get: `return cls.store[uri.source]`
Get_item(caller) ==
    /\ tPc[caller] = "get_item"
    /\ tPc' = [tPc EXCEPT ![caller] = "done"]
    /\ tResult' = [tResult EXCEPT ![caller] = StoreAt(tStore, tUri[caller])]
    /\ UNCHANGED <<tUri, tLocal, tStore, tLoaded, tCreated>>
    /\ UNCHANGED <<cVars, sVars, kVars, nVars, eVars, oVars, bVars, uVars, jVars>>

\* JsonSchemaStore.load: `if cls.has(uri): return cls.get(uri)`
Load_has(caller) ==
    /\ tPc[caller] = "load_has"
    /\ Goto(caller, IF StoreHas(tStore, tUri[caller]) THEN "get_has" ELSE "loader_has")

\* FileLoader.load: `if uri.source not in self.store`
Loader_has(caller) ==
    /\ tPc[caller] = "loader_has"
    /\ Goto(caller, IF tUri[caller] \in tLoaded THEN "construct" ELSE "loader_load")

\* FileLoader._load: the file is read and its document kept.
Loader_load(caller) ==
    /\ tPc[caller] = "loader_load"
    /\ tPc' = [tPc EXCEPT ![caller] = "construct"]
    /\ tLoaded' = tLoaded \cup {tUri[caller]}
    /\ UNCHANGED <<tUri, tLocal, tResult, tStore, tCreated>>
    /\ UNCHANGED <<cVars, sVars, kVars, nVars, eVars, oVars, bVars, uVars, jVars>>

\* JsonSchemaStore.load: `schema = JsonSchema(..., uri.base_uri())`
Load_construct(caller) ==
    /\ tPc[caller] = "construct"
    /\ tPc' = [tPc EXCEPT ![caller] = "add"]
    /\ tCreated' = tCreated + 1
    /\ tLocal' = [tLocal EXCEPT ![caller] = tCreated + 1]
    /\ UNCHANGED <<tUri, tResult, tStore, tLoaded>>
    /\ UNCHANGED <<cVars, sVars, kVars, nVars, eVars, oVars, bVars, uVars, jVars>>

\* JsonSchemaStore.load: `cls.add(uri, schema)`
Load_add(caller) ==
    /\ tPc[caller] = "add"
    /\ tPc' = [tPc EXCEPT ![caller] = "return"]
    /\ tStore' = StoreAdd(tStore, tUri[caller], tLocal[caller])
    /\ UNCHANGED <<tUri, tLocal, tResult, tLoaded, tCreated>>
    /\ UNCHANGED <<cVars, sVars, kVars, nVars, eVars, oVars, bVars, uVars, jVars>>

\* JsonSchemaStore.load: `return schema`
Load_return(caller) ==
    /\ tPc[caller] = "return"
    /\ tPc' = [tPc EXCEPT ![caller] = "done"]
    /\ tResult' = [tResult EXCEPT ![caller] = tLocal[caller]]
    /\ UNCHANGED <<tUri, tLocal, tStore, tLoaded, tCreated>>
    /\ UNCHANGED <<cVars, sVars, kVars, nVars, eVars, oVars, bVars, uVars, jVars>>

RaceInit ==
    tInit /\ cIdle /\ sIdle /\ kIdle /\ nIdle /\ eIdle /\ oIdle /\ bIdle /\ uIdle /\ jIdle

RaceNext ==
    \/ \E caller \in Callers : Get_has(caller)
    \/ \E caller \in Callers : Get_item(caller)
    \/ \E caller \in Callers : Load_has(caller)
    \/ \E caller \in Callers : Loader_has(caller)
    \/ \E caller \in Callers : Loader_load(caller)
    \/ \E caller \in Callers : Load_construct(caller)
    \/ \E caller \in Callers : Load_add(caller)
    \/ \E caller \in Callers : Load_return(caller)

SpecRace == RaceInit /\ [][RaceNext]_vars

-----------------------------------------------------------------------------
(* Properties of the combinators. *)

Min(S) == CHOOSE x \in S : \A y \in S : x <= y

Done(op) == cPc = "done" /\ cOp = op

\* The validators of the list that accept the caller's value when each is
\* run on it alone.
Accepting ==
    {i \in 1..Len(cValidators) : Run(cValidators[i], cValue, cHeap0).st = "ok"}

\* What validator i returns for the caller's value when run on it alone.
AloneResult(i) ==
    LET r == Run(cValidators[i], cValue, cHeap0) IN Deep(r.out, r.heap)

\* The calls were made in list order, one per validator, from the first.
InListOrder(calls) == \A j \in 1..Len(calls) : calls[j].i = j

\* C4: validate_any_of tries the validators in list order, returns the
\* result of the first one that accepts without running the later ones, and
\* raises any_error exactly when every validator rejects.
C4_AnyOfFirstAccepting ==
    Done("any_of") =>
        /\ InListOrder(cRes.calls)
        /\ IF Accepting = {}
           THEN /\ cRes.st = "err"
                /\ cRes.code = "any_error"
                /\ Len(cRes.calls) = Len(cValidators)
           ELSE /\ cRes.st = "ok"
                /\ Len(cRes.calls) = Min(Accepting)
                /\ Deep(cRes.out, cHeap) = AloneResult(Min(Accepting))

\* anyOf returned the second validator's result and left a third one alone.
C4_Witness ==
    /\ Done("any_of")
    /\ Len(cValidators) = 3
    /\ Min(Accepting \cup {4}) = 2
    /\ cRes.st = "ok"
    /\ Len(cRes.calls) = 2

\* C5: validate_one_of accepts a value exactly when one and only one of its
\* validators accepts it; with no match, or with two or more, it raises
\* one_of_error.
C5_OneOfExactlyOne ==
    Done("one_of") =>
        /\ (cRes.st = "ok") <=> (Cardinality(Accepting) = 1)
        /\ cRes.st = "ok" =>
              Deep(cRes.out, cHeap) = AloneResult(Min(Accepting))
        /\ cRes.st = "err" => cRes.code = "one_of_error"

\* oneOf rejected a value that two of its validators accept.
C5_Witness ==
    /\ Done("one_of")
    /\ Cardinality(Accepting) = 2
    /\ cRes.st = "err"
    /\ cRes.code = "one_of_error"

\* The caller's value has the structure it had before the call, and no heap
\* object that existed before the call has changed.
CallerValueUntouched ==
    /\ Deep(cValue, cHeap) = Deep(cValue, cHeap0)
    /\ \A id \in 1..Len(cHeap0) : cHeap[id] = cHeap0[id]

\* C6: after validate_any_of / validate_one_of returns or raises, the value
\* the caller passed in is structurally what it was before the call, even
\* when a branch fills defaults or rewrites elements.
C6_AnyOfOneOfLeaveCallerValue ==
    (Done("any_of") \/ Done("one_of")) => CallerValueUntouched

\* anyOf accepted a list through a branch that rewrote an element: what it
\* returned differs from what the caller passed.
C6_Witness ==
    /\ Done("any_of")
    /\ cValue.k = "ref"
    /\ cRes.st = "ok"
    /\ Deep(cRes.out, cHeap) # Deep(cValue, cHeap0)

\* C7: validate_all_of runs its validators in list order, hands validator
\* i+1 the value validator i returned, and stops at the first validator
\* that rejects: the later ones are not called.
C7_AllOfThreadsInOrder ==
    Done("all_of") =>
        LET calls == cRes.calls
            n     == Len(calls)
        IN  /\ InListOrder(calls)
            /\ n >= 1 => calls[1].arg = cValue
            /\ \A j \in 1..(n - 1) :
                  /\ calls[j].st = "ok"
                  /\ calls[j + 1].arg = calls[j].out
            /\ IF n >= 1 /\ calls[n].st = "err"
               THEN /\ cRes.st = "err"
                    /\ cRes.code = calls[n].code
               ELSE /\ n = Len(cValidators)
                    /\ cRes.st = "ok"
                    /\ cRes.out = IF n = 0 THEN cValue ELSE calls[n].out

\* allOf handed the second validator a value the first one had changed, the
\* second rejected it, and a third validator was never called.
C7_Witness ==
    /\ Done("all_of")
    /\ Len(cValidators) = 3
    /\ Len(cRes.calls) = 2
    /\ cRes.calls[1].out # cRes.calls[1].arg
    /\ cRes.calls[2].st = "err"
    /\ cRes.st = "err"

\* C8: validate_if_then_else applies then_validator exactly when the
\* condition accepts and else_validator exactly when it rejects; a missing
\* selected branch returns the value it was given; a rejection raised by
\* then_validator is propagated and never makes else_validator run.
C8_IfThenElseSelectsBranch ==
    Done("if_then_else") =>
        LET calls    == cRes.calls
            accepted == Run(cValidators[1], cValue, cHeap0).st = "ok"
            role     == IF accepted THEN 2 ELSE 3
            branch   == cValidators[role]
        IN  /\ calls[1].i = 1
            /\ calls[1].arg = cValue
            /\ IF branch = None
               THEN /\ Len(calls) = 1
                    /\ cRes.st = "ok"
                    /\ cRes.out = cValue
               ELSE /\ Len(calls) = 2
                    /\ calls[2].i = role
                    /\ calls[2].arg = cValue
                    /\ cRes.st = calls[2].st
                    /\ cRes.code = calls[2].code
                    /\ cRes.out = calls[2].out

\* The condition accepted, then_validator rejected, and an else_validator
\* that accepts the value was not called.
C8_Witness ==
    /\ Done("if_then_else")
    /\ cValidators[3] # None
    /\ Run(cValidators[3], cValue, cHeap0).st = "ok"
    /\ Len(cRes.calls) = 2
    /\ cRes.calls[2].i = 2
    /\ cRes.calls[2].st = "err"
    /\ cRes.st = "err"

\* C9: the condition of validate_if_then_else is evaluated on a deep copy:
\* whatever it does to its argument, the value handed to the selected
\* branch, or returned when that branch is absent, is the caller's
\* original, unmodified value.
C9_IfRunsOnDeepCopy ==
    Done("if_then_else") =>
        /\ Len(cRes.calls) = 2 => cRes.calls[2].deep = Deep(cValue, cHeap0)
        /\ Len(cRes.calls) = 1 => Deep(cRes.out, cHeap) = Deep(cValue, cHeap0)

-----------------------------------------------------------------------------
(* Properties of the schema store. *)

AtMostOneSchemaPerUri ==
    \A e1, e2 \in sStore : e1[1] = e2[1] => e1 = e2

\* C3: after any sequence of normalizations and JsonSchemaStore.get / load
\* calls the store holds at most one schema per base URI, and an entry once
\* written stays: normalizing a second schema whose "$id" is already
\* registered leaves the first registered schema in the store.
C3_StoreKeepsFirstSchema ==
    [][ /\ AtMostOneSchemaPerUri'
        /\ \A entry \in sStore : entry \in sStore' ]_vars

\* Two schemas have been normalized under the same "$id" and the store
\* holds the one normalized first.
C3_Witness ==
    \E first, second \in 1..Len(sSchemas) :
        /\ first # second
        /\ sSchemas[first].ready
        /\ sSchemas[first].id = HttpX
        /\ <<HttpX, first>> \in sStore
        /\ sLast = [op |-> "_load", uri |-> HttpX, ret |-> second, error |-> ""]

-----------------------------------------------------------------------------
(* Properties of the compiler. *)

\* The "$defs" entries a subschema refers to.
RefersTo(a) == {kSchema[a].properties, kSchema[a].items} \ {0}

RECURSIVE ReachableIn(_, _)

\* The subschemas reached from subschema a through at least one and at most
\* n references.
ReachableIn(a, n) ==
    IF n = 0
    THEN {}
    ELSE RefersTo(a) \cup UNION {ReachableIn(b, n - 1) : b \in RefersTo(a)}

\* Some "$defs" entry used from the root is reachable from itself.
HasReferenceCycle ==
    \E x \in ReachableIn(0, MaxDefs + 1) : x \in ReachableIn(x, MaxDefs + 1)

\* C1: build_validator_for terminates on a schema in which a subschema is
\* reachable from itself through a "$ref": the compilation of such a schema
\* never runs out of stack.
C1_CompileTerminatesOnCycle ==
    HasReferenceCycle => kStatus # "RecursionError"

\* C2: during build_validator_for no reference handle is dereferenced: no
\* JsonReference.document is resolved before build_validator_for returns.
C2_NoDereferenceWhileCompiling ==
    kStatus = "compiling" => kResolved = {}

-----------------------------------------------------------------------------
(* Properties of the numeric validators. *)

\* The schema has a "type" and no other keyword.
TypeOnly ==
    /\ nSchema.minimum = Null
    /\ nSchema.maximum = Null
    /\ nSchema.exclusiveMinimum = Null
    /\ nSchema.exclusiveMaximum = Null
    /\ nSchema.multipleOf = Null

\* What the claim of C10 expects of a value under a numeric type.
ExpectedAccepted(type, value) ==
    IF type = "integer"
    THEN value.k = "int"
    ELSE value.k \in {"int", "float"}

\* C10: the validator compiled for {"type": "integer"} accepts integers and
\* rejects every float and both booleans; the one compiled for
\* {"type": "number"} accepts integers and floats and rejects both booleans.
C10_CompiledNumberTypes ==
    (nPc = "called" /\ TypeOnly) =>
        /\ ExpectedAccepted(nSchema.type, nValue)
              => (nRes.st = "ok" /\ nRes.out = nValue)
        /\ nValue.k \in {"float", "bool"} /\ ~ExpectedAccepted(nSchema.type, nValue)
              => nRes.st = "err"

\* validate_number itself, given only the keywords of its signature, treats
\* the types as C10 says.
DirectNumberTypes ==
    (nPc = "direct" /\ TypeOnly) =>
        (nRes.st = "ok") = ExpectedAccepted(nSchema.type, nValue)

-----------------------------------------------------------------------------
(* Properties of validate_equal, validate_enum and uniqueItems. *)

\* The integer 1, the float 1.0 and the boolean true.
OneThreeWays == {IntV(1), FloatV(10), BoolV(TRUE)}

\* C12: uniqueItems and enum treat 1, 1.0 and true as pairwise distinct:
\* an array of different ones among them passes the uniqueness test, and
\* an enum of some of them rejects each of the others.
C12_OneFloatTrueDistinct ==
    /\ (/\ eOp = "validate_array"
        /\ \A i \in DOMAIN eArg : eArg[i] \in OneThreeWays
        /\ \A i, j \in DOMAIN eArg : i # j => eArg[i] # eArg[j])
          => eRes.st = "ok"
    /\ (/\ eOp = "validate_enum"
        /\ eValue \in OneThreeWays
        /\ \A i \in DOMAIN eArg : eArg[i] \in OneThreeWays \ {eValue})
          => (eRes.st = "err" /\ eRes.code = "enum_error")

\* C13: validate_equal never takes a boolean and a number for equal:
\* validate_equal(False, 0) and validate_equal(True, 1) raise equal_error.
C13_ConstBooleanNeverNumber ==
    (/\ eOp = "validate_equal"
     /\ eValue.k = "bool"
     /\ eArg[1].k \in {"int", "float"})
        => (eRes.st = "err" /\ eRes.code = "equal_error")

-----------------------------------------------------------------------------
(* Properties of validate_object. *)

\* The rule C14 names for the key number i of the object, applied to the
\* key's value: the validator of the first pattern found in the key, else
\* the one `properties` has for the key, else additional_properties.
RuleOutcome(i) ==
    LET key == oObj.keys[i]
        pattern_properties == oArgs.pattern_properties
        properties == oArgs.properties
        matching == {p \in DOMAIN pattern_properties :
                        re_search(pattern_properties[p].pattern, key)}
        listed == {e \in DOMAIN properties : properties[e].key = key}
        validator ==
            IF matching # {}
            THEN pattern_properties[Min(matching)].validator
            ELSE IF listed # {}
            THEN properties[Min(listed)].validator
            ELSE IF oArgs.additional_properties = AdditionalFalse
            THEN [f |-> "additional_properties_error"]
            ELSE IF oArgs.additional_properties = AdditionalTrue
            THEN Identity
            ELSE oArgs.additional_properties
    IN  IF validator.f = "additional_properties_error"
        THEN Raise("additional_properties_error", <<>>)
        ELSE Run(validator, oObj.vals[i], <<>>)

\* What C14 expects of the call, given the outcome of every key's rule.
ObjectOutcomeIs(outcomes) ==
    LET failing == {i \in DOMAIN outcomes : outcomes[i].st = "err"}
    IN  IF failing = {}
        THEN /\ oRes.st = "ok"
             /\ oRes.out = DictV(oObj.keys, [i \in DOMAIN outcomes |-> outcomes[i].out])
        ELSE /\ oRes.st = "err"
             /\ IF outcomes[Min(failing)].code = "additional_properties_error"
                THEN /\ oRes.code = "additional_properties_error"
                     /\ oRes.property_name = oObj.keys[Min(failing)]
                ELSE /\ oRes.code = "property_value_error:" \o outcomes[Min(failing)].code
                     /\ oRes.property_name \in
                            {oObj.keys[Min(failing)],
                             oObj.keys[Min(failing)] \o "." \o outcomes[Min(failing)].property_name}

\* C14: every key of a validated object is handled by exactly one rule, the
\* first matching pattern's validator, else the `properties` validator of
\* the key, else additional_properties (a validator validates the value,
\* False raises additional_properties_error, True accepts).
C14_PropertyPrecedence ==
    oPc = "called" => ObjectOutcomeIs([i \in DOMAIN oObj.keys |-> RuleOutcome(i)])

\* The key "ab" is in `properties`, both patterns are found in it, and the
\* null under it became the default of the first pattern's validator.
C14_Witness ==
    /\ oPc = "called"
    /\ oObj.keys = <<"ab">>
    /\ oObj.vals = <<Null>>
    /\ oArgs.properties = <<[key |-> "ab", validator |-> VDefaultOf(2)]>>
    /\ oArgs.pattern_properties = <<[pattern |-> "b$", validator |-> VDefaultOf(1)],
                                    [pattern |-> "^a", validator |-> VBoolean]>>
    /\ oRes.st = "ok"
    /\ oRes.out.vals = <<IntV(1)>>

RECURSIVE Join(_)

\* ".".join(path)
Join(path) ==
    IF Len(path) = 1 THEN path[1] ELSE path[1] \o "." \o Join(Tail(path))

RECURSIVE LeafError(_, _)

\* The keys that lead from a rejected value down to the innermost error, and
\* that error's message; r is what validator(value) raised.
LeafErrorOf(validator, value, r) ==
    IF r.cls # "PropertyValueValidationError"
    THEN [path |-> <<>>, message |-> str_error(r)]
    ELSE LET args == [name \in DOMAIN ObjectDefaults |->
                         IF name \in DOMAIN validator.keywords
                         THEN validator.keywords[name]
                         ELSE ObjectDefaults[name]]
             rejected == {i \in DOMAIN value.keys :
                             /\ property_rule(value.keys[i], args).validator # None
                             /\ Run(property_rule(value.keys[i], args).validator,
                                    value.vals[i], <<>>).st = "err"}
             inner == LeafError(property_rule(value.keys[Min(rejected)], args).validator,
                                value.vals[Min(rejected)])
         IN  [path |-> <<value.keys[Min(rejected)]>> \o inner.path,
              message |-> inner.message]

LeafError(validator, value) ==
    LeafErrorOf(validator, value, Run(validator, value, <<>>))

\* What C20 expects of a property value error, given the innermost error.
PropertyErrorIs(leaf) ==
    /\ Len(leaf.path) >= 1
    /\ oRes.property_name = Join(leaf.path)
    /\ oRes.validation_error = leaf.message

-----------------------------------------------------------------------------
(* Properties of the validator builder. *)

\* The schema held is a mapping with exactly these keywords.
SchemaKeysAre(keys) == bSchema.kind = "dict" /\ bSchema.keys = keys

\* The schema held is a mapping that has this keyword.
SchemaHas(key) == bSchema.kind = "dict" /\ key \in bSchema.keys

\* The validator of {"type": name} accepts the value.
SingleTypeAccepts(name, value) ==
    Run(build_validator_for(With(EmptySchema, "type", name)), value, BuildHeap).st = "ok"

\* C11: for a schema whose `type` is a list, the built validator accepts a
\* value if and only if the validator of at least one listed type accepts
\* it on its own. Here it is stated of the schemas that have the `type`
\* keyword only.
C11_TypeListIsUnion ==
    (bPc = "called" /\ SchemaKeysAre({"type"}) /\ bSchema.types # <<>>)
        => (bRes.st = "ok"
                <=> \E i \in DOMAIN bSchema.types :
                        SingleTypeAccepts(bSchema.types[i], bValue))

\* C15: for a schema that carries `default: D`, alone or together with
\* `type`, the built validator applied to null returns D.
C15_DefaultReturnedForNull ==
    (bPc = "called" /\ bValue = Null
     /\ (SchemaKeysAre({"default"}) \/ SchemaKeysAre({"default", "type"})))
        => (bRes.st = "ok" /\ bRes.out = bSchema.default)

\* The value has the shape the keyword constrains. A boolean counts as
\* a number here, so that no boolean is said not to be one.
OfShape(value, keyword) ==
    CASE keyword \in NUMERIC_VALIDATOR_PROPERTIES -> IsNumeric(value)
      [] keyword \in STRING_VALIDATOR_PROPERTIES -> value.k = "str"
      [] keyword \in ARRAY_VALIDATOR_PROPERTIES -> isinstance_list(value, BuildHeap)
      [] keyword \in OBJECT_VALIDATOR_PROPERTIES -> value.k = "dict"

ShapeKeywords ==
    NUMERIC_VALIDATOR_PROPERTIES \cup STRING_VALIDATOR_PROPERTIES
        \cup ARRAY_VALIDATOR_PROPERTIES \cup OBJECT_VALIDATOR_PROPERTIES

\* C16: for a schema without `type` whose keyword implies a shape, the
\* built validator returns unchanged every value that is not of that shape,
\* and a value of that shape is returned or rejected by the keyword.
C16_LooseTypeSkipsOtherShapes ==
    \A keyword \in ShapeKeywords :
        (bPc = "called" /\ SchemaKeysAre({keyword}))
            => IF OfShape(bValue, keyword)
               THEN bRes.st = "ok" \/ IsValueError(bRes)
               ELSE bRes.st = "ok" /\ bRes.out = bValue

\* The schema has `if` and at least one of `then` and `else`.
HasConditional ==
    SchemaHas("if") /\ (SchemaHas("then") \/ SchemaHas("else"))

\* The validator of the schema's `type` rejects the value with a
\* validation error.
TypeRejects ==
    IsValueError(Run(_build_validator_for_type(definition_type(bSchema), bSchema, TRUE),
                     bValue, BuildHeap))

\* C17: for a schema that has `type` together with `if` and `then` or
\* `else`, a validator is built, and it rejects every value that the
\* validator of the type rejects.
C17_TypeKeptWithConditional ==
    (bPc # "schema" /\ SchemaHas("type") /\ HasConditional
     /\ bSchema.keys \subseteq {"type", "if", "then", "else"})
        => /\ bPc # "failed"
           /\ (bPc = "called" /\ bSchema.type \notin {"", "object"} /\ TypeRejects)
                 => bRes.st = "err"

\* C18: when a schema has `enum` or `const`, the built validator accepts
\* a value exactly when validate_enum (respectively validate_equal) accepts
\* it, whatever the other keywords are, `if`, `then` and `else` included.
C18_EnumAndConstShortCircuit ==
    /\ (bPc = "called" /\ SchemaHas("enum"))
          => (bRes.st = "ok"
                <=> validate_enum(bValue, bSchema.enum, BuildHeap).st = "ok")
    /\ (bPc = "called" /\ SchemaHas("const"))
          => (bRes.st = "ok"
                <=> validate_equal(bValue, bSchema.const, BuildHeap).st = "ok")

\* The error codes of the taxonomy; a property_value_error code is
\* followed by the code of the property's error.
TaxonomyCodes ==
    {"type_error", "enum_error", "equal_error", "format_error",
     "multiple_of_error", "minimum_error", "maximum_error",
     "unique_items_error", "additional_items_error", "minimum_items_error",
     "maximum_items_error", "required_property_error", "property_value_error",
     "property_name_error", "additional_properties_error",
     "minimum_properties_error", "maximum_properties_error",
     "dependency_error", "any_error", "one_of_error", "not_error"}

\* C19: for every schema and value, the built validator returns the value,
\* or the default in place of null, or raises an error whose code is in the
\* taxonomy; so does the false schema, and so do `then: false` and
\* `else: false`.
C19_ReturnsValueOrTaxonomyError ==
    (bPc = "called")
        => \/ bRes.st = "ok" /\ bRes.out = bValue
           \/ bRes.st = "ok" /\ bValue = Null /\ SchemaHas("default")
                /\ bRes.out = bSchema.default
           \/ bRes.st = "err" /\ bRes.code \in TaxonomyCodes

-----------------------------------------------------------------------------
(* Properties of the validators' effect on the caller's value. *)

\* C26: a validator call never modifies the value the caller passed in:
\* after any of the combinators, over any leaf validators (tuple validation
\* among them), has returned or raised, the caller's value is structurally
\* what it was before the call.
C26_ValidatorsLeaveCallerValue ==
    cPc = "done" => CallerValueUntouched

-----------------------------------------------------------------------------
(* Properties of JsonUri.__add__. *)

\* The string added is a relative path, with or without a fragment.
IsRelativePath(other) ==
    \E relative \in RelativePaths :
        other = relative \/ other = relative \o <<"#", "b">>

\* The path and the fragment of such a string.
RelativeOf(other) == SubSeq(other, 1, PrefixLength(other, NotHash))

FragmentOf(other) ==
    IF PrefixLength(other, NotHash) = Len(other)
    THEN PyNone
    ELSE Tail_from(other, PrefixLength(other, NotHash) + 2)

\* The directories of the parent directory of a path: its items but the
\* last one.
ParentDirectory(path_) == SubSeq(split(path_, "/"), 1, Len(split(path_, "/")) - 1)

RECURSIVE Collapsed(_, _)

\* The directory reached from `directories` by the segments: ".." leaves
\* one directory, "." stays, a name enters.
Collapsed(directories, segments) ==
    IF Len(segments) = 0 THEN directories
    ELSE IF segments[1] = <<".", ".">>
    THEN Collapsed(SubSeq(directories, 1, Len(directories) - 1), Tail(segments))
    ELSE IF segments[1] = <<".">>
    THEN Collapsed(directories, Tail(segments))
    ELSE Collapsed(Append(directories, segments[1]), Tail(segments))

\* The relative path does not climb above the first directory of the path.
StaysBelowRoot(path_, relative) ==
    Cardinality({i \in DOMAIN split(relative, "/") : split(relative, "/")[i] = <<".", ".">>})
        <= Cardinality({i \in DOMAIN ParentDirectory(path_) : ParentDirectory(path_)[i] # <<>>})

\* C24: adding a relative path to a JsonUri resolves it against the parent
\* directory of the current path, one directory removed per ".." segment
\* and "." segments ignored, whatever the current path is; the result has
\* the fragment of the string added and not the receiver's.
C24_AddResolvesAgainstParent ==
    (uPc = "added" /\ IsRelativePath(uOther)
     /\ StaysBelowRoot(uSelf.path, RelativeOf(uOther)))
        => /\ uRes.st = "ok"
           /\ uRes.protocol = uSelf.protocol
           /\ uRes.path = join("/", Collapsed(ParentDirectory(uSelf.path),
                                              split(RelativeOf(uOther), "/")))
           /\ uRes._fragment = FragmentOf(uOther)

-----------------------------------------------------------------------------
(* Properties of JsonSchema and of its reference handles. *)

\* The handle of the normalized document that replaced the mapping at
\* the pointer.
HandleAt(at) == CHOOSE handle \in handles(jSelf._document) : handle.at = at

\* The last operation was handle.document on a handle with sibling
\* keywords, and it returned a mapping.
OverlayMerged ==
    /\ jLast.op = "reference"
    /\ jLast.st = "ok"
    /\ jLast.out.t = "dict"
    /\ Len(HandleAt(jLast.arg)._ref_document.keys) > 0

\* C21: when a handle with sibling keywords resolves to a mapping, the
\* resolved document has the keys of the target and of the overlay, and a
\* key of both has the overlay's value.
C21_OverlayWinsOnMerge ==
    OverlayMerged =>
        \A key \in {HandleAt(jLast.arg)._ref_document.keys[i] :
                        i \in DOMAIN HandleAt(jLast.arg)._ref_document.keys} :
            /\ HasKey(jLast.out, key)
            /\ GetItem(jLast.out, key) = GetItem(HandleAt(jLast.arg)._ref_document, key)

RECURSIVE ReferenceKeysLeft(_)

\* A mapping of the node, the overlays of its handles included, still has
\* a string-valued "$ref" or "$dynamicRef".
ReferenceKeysLeft(node) ==
    CASE node.t = "list" -> \E i \in DOMAIN node.items : ReferenceKeysLeft(node.items[i])
      [] node.t = "dict" ->
            \/ is_reference(node, "$ref")
            \/ is_reference(node, "$dynamicRef")
            \/ \E i \in DOMAIN node.vals : ReferenceKeysLeft(node.vals[i])
      [] node.t = "ref" -> ReferenceKeysLeft(node._ref_document)
      [] OTHER -> FALSE

\* C22: after normalization no mapping of the document, the root mapping
\* included, has a string-valued "$ref" or "$dynamicRef": each such
\* mapping has been replaced by a handle.
C22_EveryReferenceReplaced == jSelf._ready => ~ReferenceKeysLeft(jSelf._document)

RECURSIVE Declarations(_, _)
RECURSIVE DeclarationsOfItems(_, _, _)

\* The declarations of the items of a list or of a mapping, in order.
DeclarationsOfItems(keys, vals, path) ==
    IF Len(keys) = 0 THEN <<>>
    ELSE Declarations(vals[1], Append(path, keys[1]))
         \o DeclarationsOfItems(Tail(keys), Tail(vals), path)

\* The anchor declarations of a node of the caller's document in the
\* order of the pre-order walk, each as <<name, pointer>>.
Declarations(node, path) ==
    CASE node.t = "list" -> DeclarationsOfItems(IndexKeys(node.items), node.items, path)
      [] node.t = "dict" ->
            (IF HasKey(node, "$dynamicAnchor")
             THEN <<<<"#" \o GetItem(node, "$dynamicAnchor").v, PointerTo(path)>>>>
             ELSE <<>>)
            \o (IF HasKey(node, "$anchor")
                THEN <<<<"#" \o GetItem(node, "$anchor").v, PointerTo(path)>>>>
                ELSE <<>>)
            \o DeclarationsOfItems(node.keys, node.vals, path)
      [] OTHER -> <<>>

\* The declarations of the caller's document: _load walks the values of
\* the root mapping.
Declared == DeclarationsOfItems(jRaw.keys, jRaw.vals, <<>>)

\* The last declaration of the name.
LastDeclared(name) ==
    Declared[CHOOSE i \in DOMAIN Declared :
                /\ Declared[i][1] = name
                /\ \A j \in DOMAIN Declared : Declared[j][1] = name => j <= i][2]

\* C23: the anchor table of a normalized schema has one entry for each
\* declared name, and the entry is the pointer to the declaration that the
\* pre-order walk visits last.
C23_LastAnchorWins ==
    jSelf._ready =>
        /\ DOMAIN jSelf.anchors = {Declared[i][1] : i \in DOMAIN Declared}
        /\ \A name \in DOMAIN jSelf.anchors : jSelf.anchors[name] = LastDeclared(name)

\* A normalized schema with a name declared at two pointers.
C23_Witness ==
    /\ jSelf._ready
    /\ \E i, j \in DOMAIN Declared :
        /\ i < j
        /\ Declared[i][1] = Declared[j][1]
        /\ Declared[i][2] # Declared[j][2]
        /\ jSelf.anchors[Declared[j][1]] = Declared[j][2]

\* C25: on a normalized schema, id, document and _load leave the
\* document (the same object), the base URI, the anchor table and the
\* store as they are.
C25_NormalizationIdempotent ==
    [][(jSelf._ready /\ jLast'.op \in {"id", "document", "_load"})
          => (jSelf' = jSelf /\ jStore' = jStore)]_vars

\* id, document or _load on a schema that was normalized before: one of
\* its handles has been resolved already.
C25_Witness ==
    /\ jSelf._ready
    /\ jSelf.object = 1
    /\ jLast.op \in {"id", "document", "_load"}
    /\ DOMAIN jMemo.resolved # {}

RECURSIVE HandlesLeft(_)

\* The node still holds a JsonReference object.
HandlesLeft(node) ==
    CASE node.t = "list" -> \E i \in DOMAIN node.items : HandlesLeft(node.items[i])
      [] node.t = "dict" -> \E i \in DOMAIN node.vals : HandlesLeft(node.vals[i])
      [] node.t = "ref" -> TRUE
      [] OTHER -> FALSE

\* C27: dump terminates, on a schema whose references form a cycle as
\* well: it never exhausts the stack, and what it returns holds no handle
\* any more, each being emitted as {"$ref": fragment} or replaced by its
\* resolved target.
C27_DumpTerminatesOnCycles ==
    jLast.op = "dump" =>
        /\ jLast.st # "RecursionError"
        /\ jLast.st = "ok" => ~HandlesLeft(jLast.out)

RECURSIVE Plain(_, _)

\* The node at the parts of a pointer, found without resolving a handle;
\* NoNode when there is none.
Plain(node, parts) ==
    IF Len(parts) = 0 THEN node
    ELSE CASE node.t = "dict" /\ HasKey(node, parts[1]) ->
                Plain(GetItem(node, parts[1]), Tail(parts))
           [] node.t = "list" /\ int(parts[1]) \in 0..(Len(node.items) - 1) ->
                Plain(node.items[int(parts[1]) + 1], Tail(parts))
           [] OTHER -> NoNode

\* The node a handle refers to.
TargetOf(handle) ==
    Plain(jSelf._document,
          query_parts(IF handle.uri \in DOMAIN jSelf.anchors
                      THEN jSelf.anchors[handle.uri] ELSE handle.uri))

RECURSIVE ChainEnd(_, _)

\* The node at the end of the chain of handles that starts at the
\* handle, followed for at most `steps` handles.
ChainEnd(handle, steps) ==
    IF steps = 0 \/ TargetOf(handle).t # "ref"
    THEN TargetOf(handle)
    ELSE ChainEnd(TargetOf(handle), steps - 1)

\* The last operation was handle.document on a handle whose target is a
\* handle, both without sibling keywords.
ChainResolved ==
    /\ jLast.op = "reference"
    /\ jLast.st = "ok"
    /\ TargetOf(HandleAt(jLast.arg)).t = "ref"
    /\ Len(HandleAt(jLast.arg)._ref_document.keys) = 0
    /\ Len(TargetOf(HandleAt(jLast.arg))._ref_document.keys) = 0

\* C28: a handle whose `document` has been resolved returns the same
\* object at every later access, without a call of query and without a
\* new mapping; what a handle resolves to is never a handle, and for a
\* chain of handles it is the node at the end of the chain.
C28_HandleResolvesOnce ==
    /\ [][(jLast'.op = "reference" /\ jSelf._ready /\ jLast'.arg \in DOMAIN jMemo.resolved
           /\ <<jMemo, jLast>>' # <<jMemo, jLast>>)
            => /\ jLast'.st = "ok"
               /\ jLast'.out = jMemo.resolved[jLast'.arg]
               /\ jLast'.queried = 0
               /\ jLast'.created = 0
               /\ jMemo' = jMemo]_vars
    /\ [](jSelf # <<>> =>
            /\ \A at \in DOMAIN jMemo.resolved : jMemo.resolved[at].t # "ref"
            /\ ChainResolved => jLast.out = ChainEnd(HandleAt(jLast.arg), MaxDepth))

\* The last operation was query("#n") on a schema that declares the
\* anchor n.
AnchorQueried ==
    /\ jLast.op = "query"
    /\ jLast.arg = "#n"
    /\ \E i \in DOMAIN Declared : Declared[i][1] = "#n"

\* query(P) on the normalized schema, P the pointer of the anchor n.
PointerQueried ==
    JsonSchema_query(LastDeclared("#n"), NoAnchors, Owner(jSelf), NoMemo, 0)

\* C29: query("#n") returns the node that query(P) returns, P being the
\* pointer at which the anchor n is declared, whatever was done with the
\* schema before, nothing included.
C29_AnchorQueryIsPointerQuery ==
    AnchorQueried =>
        /\ jLast.st = PointerQueried.st
        /\ jLast.out = PointerQueried.out

-----------------------------------------------------------------------------
(* Properties of concurrent calls of JsonSchemaStore.get. *)

\* Callers of the same URI that have returned hold the same object.
SameSchemaReturned ==
    \A first, second \in Callers :
        (/\ tPc[first] = "done"
         /\ tPc[second] = "done"
         /\ tUri[first] = tUri[second]) => tResult[first] = tResult[second]

\* C30: when callers request the same URI at once, each interleaving
\* ends with one schema for it: the callers receive the same object, and
\* an entry of the store is never replaced once it is written.
C30_ConcurrentGetYieldsOneSchema ==
    /\ [](tPc # <<>> => SameSchemaReturned)
    /\ [][\A uri \in {FileA, FileB} :
            StoreHas(tStore, uri) => StoreAt(tStore', uri) = StoreAt(tStore, uri)]_vars

====
